---- MODULE Spec2Model ----
(***************************************************************************)
(* Doctor credential verification (DoctorCredentialVerifier) as a state    *)
(* machine: the NPI cache, the verifier's configuration, and verify_doctor *)
(* calls that advance from one awaited registry request to the next; and   *)
(* the pipeline step that drives it (VerifyHandler), whose execute runs    *)
(* from one awaited verify_doctor to the next and then to its StepResult.  *)
(* A second verifier of the same process (peer) has a cache of its own.    *)
(* The confidence aggregation (get_confidence_values,                      *)
(* find_keys_with_min_confidence, merge_confidence_values) is a set of     *)
(* operators applied to bounded confidence trees, with confidences in      *)
(* ten-thousandths so that rounding to three decimals can be observed.     *)
(*                                                                         *)
(* Python str values that the code inspects (names, identifiers, status    *)
(* codes) are sequences of one-character strings.  Enum values and the     *)
(* fixed texts of messages are TLA+ strings; an f-string is represented by *)
(* its template.  timestamp and api_response_time are wall-clock readings  *)
(* and are left out of VerificationResult.                                 *)
(***************************************************************************)
EXTENDS Integers, Sequences, FiniteSets, TLC

VARIABLES
    cache,                       \* self.cache: NPI number -> details
    state_license_api_endpoint,  \* self.state_license_api_endpoint
    api_key,                     \* self.api_key
    task,                        \* the verify_doctor coroutines, one per slot
    prev,                        \* the call that returned last, as its caller saw it
    handler,                     \* the VerifyHandler and the execute() it is running
    peer,                        \* a second DoctorCredentialVerifier of the process
    aggregate                    \* the confidence structures given and what was computed of them

vars == <<cache, state_license_api_endpoint, api_key, task, prev, handler, peer, aggregate>>

----------------------------------------------------------------------------
(* Bounds of the model. *)

NumTasks == 2
MaxResults == 2

----------------------------------------------------------------------------
(* Python values. *)

\* None, for every optional text: a sequence that is no text.
None == <<"None">>

\* details=None: VerificationResult.details left at its default.
NoDetails == [none |-> TRUE]

\* {} : the empty dict used as a .get default.
EmptyDict == [k \in {} |-> None]

\* A message text. error_message is None or a message.
Msg(text) == <<text>>

\* bool(x) of an optional text: None and "" are false.
Truthy(x) == x # None /\ x # <<>>

\* a or b
Or(a, b) == IF Truthy(a) THEN a ELSE b

\* d.get(k, default)
Get(d, k, default) == IF k \in DOMAIN d THEN d[k] ELSE default

\* The characters str.lower() changes, of those a string here can hold (up to
\* U+00FF): A..Z and the cased capitals of Latin-1, and what it changes each to.
UpperCase == <<"A","B","C","D","E","F","G","H","I","J","K","L","M",
               "N","O","P","Q","R","S","T","U","V","W","X","Y","Z",
               "À","Á","Â","Ã","Ä","Å","Æ","Ç","È","É","Ê","Ë","Ì",
               "Í","Î","Ï","Ð","Ñ","Ò","Ó","Ô","Õ","Ö","Ø","Ù","Ú",
               "Û","Ü","Ý","Þ">>
LowerCase == <<"a","b","c","d","e","f","g","h","i","j","k","l","m",
               "n","o","p","q","r","s","t","u","v","w","x","y","z",
               "à","á","â","ã","ä","å","æ","ç","è","é","ê","ë","ì",
               "í","î","ï","ð","ñ","ò","ó","ô","õ","ö","ø","ù","ú",
               "û","ü","ý","þ">>

\* The upper-case letters as a set.
UpperCaseSet == {UpperCase[i] : i \in DOMAIN UpperCase}

\* c.lower() of one character: every other character (digits, punctuation,
\* lower-case letters, the sharp s, the multiplication sign) is kept.
LowerChar(c) ==
    IF c \in UpperCaseSet
    THEN LowerCase[CHOOSE i \in DOMAIN UpperCase : UpperCase[i] = c]
    ELSE c

\* s.lower()
Lower(s) == [i \in 1..Len(s) |-> LowerChar(s[i])]

\* The characters c.isspace() holds of, which str.strip() and str.split() take
\* as whitespace: tab, line feed, vertical tab, form feed, carriage return,
\* the separators U+001C..U+001F, space, next line U+0085 and the no-break
\* space U+00A0.
VT == ""
FS == ""
GS == ""
RS == ""
US == ""
NEL == ""
NBSP == " "
Whitespace == {"\t", "\n", VT, "\f", "\r", FS, GS, RS, US, " ", NEL, NBSP}

IsSpace(c) == c \in Whitespace

StartsWith(s, p) == Len(s) >= Len(p) /\ SubSeq(s, 1, Len(p)) = p

\* s.replace(old, new), old non-empty: leftmost non-overlapping occurrences.
RECURSIVE Replace(_, _, _)
Replace(s, old, new) ==
    IF s = <<>> THEN <<>>
    ELSE IF StartsWith(s, old)
         THEN new \o Replace(SubSeq(s, Len(old) + 1, Len(s)), old, new)
         ELSE <<Head(s)>> \o Replace(Tail(s), old, new)

RECURSIVE LStrip(_)
LStrip(s) == IF s # <<>> /\ IsSpace(Head(s)) THEN LStrip(Tail(s)) ELSE s

RECURSIVE RStrip(_)
RStrip(s) ==
    IF s # <<>> /\ IsSpace(s[Len(s)]) THEN RStrip(SubSeq(s, 1, Len(s) - 1)) ELSE s

\* s.strip()
Strip(s) == RStrip(LStrip(s))

\* The first whitespace-free run of s, s not starting with a space.
RECURSIVE Word(_)
Word(s) ==
    IF s = <<>> \/ IsSpace(Head(s)) THEN <<>> ELSE <<Head(s)>> \o Word(Tail(s))

\* s.split(): the runs between whitespace, none of them empty.
RECURSIVE Split(_)
Split(s) ==
    LET t == LStrip(s) IN
    IF t = <<>> THEN <<>>
    ELSE <<Word(t)>> \o Split(SubSeq(t, Len(Word(t)) + 1, Len(t)))

----------------------------------------------------------------------------
(* model.py *)

VERIFIED == "verified"
NOT_FOUND == "not_found"
INVALID == "invalid"
EXPIRED == "expired"
REVOKED == "revoked"
ERROR == "error"
SKIPPED == "skipped"

VerificationStatus == {VERIFIED, NOT_FOUND, INVALID, EXPIRED, REVOKED, ERROR, SKIPPED}

DOCTOR == "doctor"

VerificationResult(field_name, extracted_value, status, details, error_message) ==
    [field_name |-> field_name,
     extracted_value |-> extracted_value,
     verification_type |-> DOCTOR,
     status |-> status,
     details |-> details,
     error_message |-> error_message]

----------------------------------------------------------------------------
(* The values the calls and the registries are drawn from. *)

FIELD == <<"f">>
N1 == <<"1">>
N2 == <<"2">>
N4 == <<"4">>
L1 == <<"L","1">>
NY == <<"N","Y">>
URL == <<"u">>
KEY == <<"k">>
MD == <<"M","D">>
Active == <<"A","c","t","i","v","e">>
Inactive == <<"I","n","a","c","t","i","v","e">>
Cardiology == <<"C","a","r","d">>

DrAlBo == <<"D","r","."," ","A","l"," ","B","o">>
AlOnly == <<"A","l">>
DrewBo == <<"D","r","e","w"," ","B","o">>

NpiArgs == {None, <<>>, N1, N2}
LicenseArgs == {None, L1}
StateArgs == {None, NY}
NameArgs == {None, DrAlBo, AlOnly, DrewBo}

Args ==
    [field_name : {FIELD}, doctor_name : NameArgs, npi_number : NpiArgs,
     license_number : LicenseArgs, state : StateArgs]

\* Provider records of the NPI registry: number N1 as an active and as a
\* deactivated record, and two other active providers.
Basic(first, last, status) ==
    [first_name |-> first, last_name |-> last, status |-> status, credential |-> MD]

Providers ==
    { [number |-> N1, basic |-> Basic(<<"A","L">>, <<"B","O">>, <<"A">>),
       taxonomies |-> << [desc |-> Cardiology] >>],
      [number |-> N2, basic |-> Basic(<<"A","l">>, <<"B","o">>, <<"A">>),
       taxonomies |-> <<>>],
      [number |-> N1, basic |-> Basic(<<"A","L">>, <<"B","O">>, <<"D">>),
       taxonomies |-> <<>>],
      [number |-> N4, basic |-> Basic(<<"A","L">>, <<"B","O","N","D">>, <<"A">>),
       taxonomies |-> <<>>] }

RECURSIVE SeqsUpTo(_, _)
SeqsUpTo(S, n) ==
    IF n = 0 THEN {<<>>}
    ELSE LET shorter == SeqsUpTo(S, n - 1)
         IN shorter \cup {Append(q, x) : q \in {r \in shorter : Len(r) = n - 1}, x \in S}

\* The JSON bodies of the NPI registry with at most n records: result_count
\* and results are read independently by the code, and results may be missing.
NpiData(n) ==
    [result_count : 0..n, results : SeqsUpTo(Providers, n)] \cup [result_count : 0..1]

\* The JSON bodies of the state license registry.
LicenseStatuses ==
    { <<"A","c","t","i","v","e">>, <<"A","C","T","I","V","E">>,
      <<"e","x","p","i","r","e","d">>, <<"R","e","v","o","k","e","d">>,
      <<"S","U","S","P","E","N","D","E","D">>, <<"p","e","n","d","i","n","g">>,
      <<>> }

LicenseData ==
    [status : LicenseStatuses, license_number : {L1}] \cup [license_number : {L1}]

HttpResponse(status_code, data) == [status_code |-> status_code, data |-> data]

ServerError == HttpResponse(500, [message |-> <<"d","o","w","n">>])

\* Responses of the NPI registry carrying at most one record: the lookup by
\* number reads results[0] only.
NpiResponses == {HttpResponse(200, d) : d \in NpiData(1)} \cup {ServerError}

\* Responses of the NPI registry carrying up to MaxResults records, for the
\* lookup by name.
NameResponses == {HttpResponse(200, d) : d \in NpiData(MaxResults)} \cup {ServerError}

LicenseResponses == {HttpResponse(200, d) : d \in LicenseData} \cup {ServerError}

\* What `await client.get(...)` / `await client.post(...)` can raise instead of
\* returning.  httpx enforces the client's timeout and reports its expiry as
\* an httpx.TimeoutException; asyncio.TimeoutError is what the caller's own
\* handler names.
Exception(type, message) == [type |-> type, message |-> Msg(message)]

Failures ==
    { Exception("asyncio.TimeoutError", ""),
      Exception("httpx.ReadTimeout", "The read operation timed out"),
      Exception("httpx.ConnectError", "All connection attempts failed") }

IsTimeout(e) == e.type \in {"asyncio.TimeoutError", "httpx.ReadTimeout"}

----------------------------------------------------------------------------
(* doctor_verifier.py: the three lookups. *)

NoIdentifiersMessage ==
    Msg("No verifiable identifiers provided (need NPI, or name+state, or license+state)")
TimeoutMessage == Msg("API timeout")
ParseMessage == Msg("Unable to parse first and last name")
NoProvidersMessage == Msg("No providers found with name '{doctor_name}' in state {state}")
MultipleMessage ==
    Msg("Multiple providers found with name '{doctor_name}' in {state}. Cannot verify without NPI or license number.")
SimilarMessage ==
    Msg("Found {result_count} providers with similar names in {state}, but no exact match for '{doctor_name}'")
ApiErrorMessage == Msg("API error: {response.status_code}")
NotConfiguredMessage == Msg("State license API not configured")
NotActiveReason == Msg("NPI status is not Active")
NameAndState == Msg("name_and_state")

\* What a lookup does with a response: it returns a result (and the cache as it
\* leaves it) or an exception escapes it.
Returned(result, c) == [kind |-> "return", result |-> result, cache |-> c]
Raised(e) == [kind |-> "raise", exc |-> e]

\* f"{first_name} {last_name}".strip()
FullName(basic) ==
    Strip(Get(basic, "first_name", <<>>) \o <<" ">> \o Get(basic, "last_name", <<>>))

\* The write to the cache forgotten.
CachePut_Dropped(c, npi_number, details) == c

\* A cache that keeps the entry written last and nothing else.
CachePut_Evicting(c, npi_number, details) == [k \in {npi_number} |-> details]

\* The entry of a number written once and kept: the first writer wins.
CachePut_KeepFirst(c, npi_number, details) ==
    [k \in DOMAIN c \cup {npi_number} |-> IF k \in DOMAIN c THEN c[k] ELSE details]

\* self.cache[npi_number] = details
CachePut(c, npi_number, details) ==
    [k \in DOMAIN c \cup {npi_number} |-> IF k = npi_number THEN details ELSE c[k]]

\* {**cached_result, "cached": True}
WithCached(cached_result) == [cached_result EXCEPT !.cached = TRUE]

\* The cached details left out of the result.
NpiCacheHit_NoDetails(c, field_name, npi_number) ==
    VerificationResult(field_name, npi_number, VERIFIED, NoDetails, None)

\* _verify_by_npi up to its await: the cache check.
NpiCacheHit(c, field_name, npi_number) ==
    VerificationResult(field_name, npi_number, VERIFIED, WithCached(c[npi_number]), None)

\* The details written as those of a cache hit already.
NpiDetails_MarkedCached(result) ==
    [npi |-> Get(result, "number", None),
     name |-> FullName(Get(result, "basic", EmptyDict)),
     credential |-> Get(Get(result, "basic", EmptyDict), "credential", None),
     status |-> Active, cached |-> TRUE]

\* The details _verify_by_npi extracts from an active record.
NpiDetails(result) ==
    LET basic == Get(result, "basic", EmptyDict)
        taxonomies == Get(result, "taxonomies", <<>>)
    IN IF taxonomies # <<>>
       THEN [npi |-> Get(result, "number", None), name |-> FullName(basic),
             credential |-> Get(basic, "credential", None), status |-> Active,
             cached |-> FALSE, specialty |-> Get(taxonomies[1], "desc", None)]
       ELSE [npi |-> Get(result, "number", None), name |-> FullName(basic),
             credential |-> Get(basic, "credential", None), status |-> Active,
             cached |-> FALSE]

\* Every record taken to be active.
NpiNotActive_Never(status) == FALSE

\* if status != "A"
NpiNotActive(status) == status # <<"A">>

\* _verify_by_npi from the response on.
NpiOnResponse(c, field_name, npi_number, response) ==
    IF response.status_code = 200 /\ Get(response.data, "result_count", 0) > 0
    THEN IF "results" \notin DOMAIN response.data
         THEN Raised(Exception("KeyError", "'results'"))
         ELSE IF response.data.results = <<>>
         THEN Raised(Exception("IndexError", "list index out of range"))
         ELSE LET result == response.data.results[1]
                  status == Get(Get(result, "basic", EmptyDict), "status", <<>>)
              IN IF NpiNotActive(status)
                 THEN Returned(VerificationResult(field_name, npi_number, INVALID,
                                   [reason |-> NotActiveReason, npi_status |-> status], None), c)
                 ELSE Returned(VerificationResult(field_name, npi_number, VERIFIED,
                                   NpiDetails(result), None),
                               CachePut(c, npi_number, NpiDetails(result)))
    ELSE Returned(VerificationResult(field_name, npi_number, NOT_FOUND, NoDetails, None), c)

\* not self.state_license_api_endpoint or not self.api_key
LicenseNotConfigured == ~Truthy(state_license_api_endpoint) \/ ~Truthy(api_key)

LicenseSkipped(field_name, license_number) ==
    VerificationResult(field_name, license_number, SKIPPED, NoDetails, NotConfiguredMessage)

\* "suspended" left out of the revoked statuses.
LicenseStatus_NoSuspended(status) ==
    IF status = <<"a","c","t","i","v","e">> THEN VERIFIED
    ELSE IF status = <<"e","x","p","i","r","e","d">> THEN EXPIRED
    ELSE IF status = <<"r","e","v","o","k","e","d">> THEN REVOKED
    ELSE NOT_FOUND

\* The status the license registry's answer maps to.
LicenseStatus(status) ==
    IF status = <<"a","c","t","i","v","e">> THEN VERIFIED
    ELSE IF status = <<"e","x","p","i","r","e","d">> THEN EXPIRED
    ELSE IF status \in {<<"r","e","v","o","k","e","d">>, <<"s","u","s","p","e","n","d","e","d">>}
         THEN REVOKED
    ELSE NOT_FOUND

\* _verify_by_state_license from the response on.
LicenseOnResponse(field_name, license_number, response) ==
    IF response.status_code = 200
    THEN LET data == response.data
             status == Lower(Get(data, "status", <<>>))
         IN IF LicenseStatus(status) # NOT_FOUND
            THEN VerificationResult(field_name, license_number, LicenseStatus(status), data, None)
            ELSE VerificationResult(field_name, license_number, NOT_FOUND, NoDetails, None)
    ELSE VerificationResult(field_name, license_number, NOT_FOUND, NoDetails, None)

\* The name split as it is, titles and all.
NameParts_KeepTitles(doctor_name) == Split(Strip(doctor_name))

\* doctor_name.replace("Dr.", "").replace("Dr", "").strip().split()
NameParts(doctor_name) ==
    Split(Strip(Replace(Replace(doctor_name, <<"D","r",".">>, <<>>), <<"D","r">>, <<>>)))

FirstName(doctor_name) == NameParts(doctor_name)[1]
LastName(doctor_name) == NameParts(doctor_name)[Len(NameParts(doctor_name))]

ParseError(field_name, doctor_name) ==
    VerificationResult(field_name, doctor_name, ERROR, NoDetails, ParseMessage)

\* The comparison made without lower().
NameMatches_CaseSensitive(result, first_name, last_name) ==
    LET basic == Get(result, "basic", EmptyDict)
    IN /\ Get(basic, "first_name", <<>>) = first_name
       /\ Get(basic, "last_name", <<>>) = last_name

\* result_first == first_name.lower() and result_last == last_name.lower()
NameMatches(result, first_name, last_name) ==
    LET basic == Get(result, "basic", EmptyDict)
    IN /\ Lower(Get(basic, "first_name", <<>>)) = Lower(first_name)
       /\ Lower(Get(basic, "last_name", <<>>)) = Lower(last_name)

\* basic.get("status") == "A"
IsActive(result) == Get(Get(result, "basic", EmptyDict), "status", None) = <<"A">>

AllMatches(results, first_name, last_name) ==
    LET Test(r) == NameMatches(r, first_name, last_name) IN SelectSeq(results, Test)

ActiveMatches(results, first_name, last_name) ==
    LET Test(r) == NameMatches(r, first_name, last_name) /\ IsActive(r)
    IN SelectSeq(results, Test)

\* No preference for the active matches.
Candidates_NoPreference(results, first_name, last_name) ==
    AllMatches(results, first_name, last_name)

\* matches = active_matches if active_matches else all_matches
Candidates(results, first_name, last_name) ==
    IF ActiveMatches(results, first_name, last_name) # <<>>
    THEN ActiveMatches(results, first_name, last_name)
    ELSE AllMatches(results, first_name, last_name)

\* The details _verify_by_name_and_state extracts from the single match.
NameDetails(result, state) ==
    LET basic == Get(result, "basic", EmptyDict)
        taxonomies == Get(result, "taxonomies", <<>>)
        status == IF IsActive(result) THEN Active ELSE Inactive
    IN IF taxonomies # <<>>
       THEN [npi |-> Get(result, "number", None), name |-> FullName(basic),
             credential |-> Get(basic, "credential", None), status |-> status,
             state |-> state, verification_method |-> NameAndState,
             specialty |-> Get(taxonomies[1], "desc", None)]
       ELSE [npi |-> Get(result, "number", None), name |-> FullName(basic),
             credential |-> Get(basic, "credential", None), status |-> status,
             state |-> state, verification_method |-> NameAndState]

\* _verify_by_name_and_state from the response on; first_name and last_name
\* are the locals the request was built from.
NameOnResponse(field_name, doctor_name, state, first_name, last_name, response) ==
    IF response.status_code = 200
    THEN LET data == response.data
             matches == Candidates(Get(data, "results", <<>>), first_name, last_name)
         IN IF Get(data, "result_count", 0) = 0
            THEN VerificationResult(field_name, doctor_name, NOT_FOUND, NoDetails, NoProvidersMessage)
            ELSE IF Len(matches) = 1
            THEN VerificationResult(field_name, doctor_name, VERIFIED,
                                    NameDetails(matches[1], state), None)
            ELSE IF Len(matches) > 1
            THEN VerificationResult(field_name, doctor_name, INVALID,
                                    [match_count |-> Len(matches)], MultipleMessage)
            ELSE VerificationResult(field_name, doctor_name, NOT_FOUND, NoDetails, SimilarMessage)
    ELSE VerificationResult(field_name, doctor_name, ERROR, NoDetails, ApiErrorMessage)

----------------------------------------------------------------------------
(* doctor_verifier.py: verify_doctor.  A call runs from one await to the    *)
(* next in one step; between two awaits nothing else runs.                 *)

Tasks == 1..NumTasks

NoResult == [none |-> TRUE]
NoResponse == [none |-> TRUE]
NoArgs ==
    [field_name |-> None, doctor_name |-> None, npi_number |-> None,
     license_number |-> None, state |-> None]
EmptyCache == [k \in {} |-> NoDetails]

\* A slot with no call in it.
IdleTask ==
    [pc |-> "idle", args |-> NoArgs, steps |-> <<>>, reqs |-> <<>>,
     resp |-> [for |-> "none", response |-> NoResponse], ret |-> NoResult,
     cache0 |-> EmptyCache]

\* verify_doctor entered with arguments a, the cache being c.
NewCall(a, c) == [IdleTask EXCEPT !.pc = "start", !.args = a, !.cache0 = c]

NpiRequest(npi_number) ==
    [lookup |-> "npi", params |-> [number |-> npi_number, version |-> <<"2",".","1">>]]

LicenseRequest(license_number, state) ==
    [lookup |-> "license",
     json |-> [license_number |-> license_number, state |-> state],
     bearer |-> api_key]

NameRequest(first_name, last_name, state) ==
    [lookup |-> "name",
     params |-> [first_name |-> first_name, last_name |-> last_name, state |-> state,
                 version |-> <<"2",".","1">>, limit |-> 10]]

\* The request is sent and the call waits for its response.
Await(tr, pc, request) == [tr EXCEPT !.pc = pc, !.reqs = Append(@, request)]

\* A lookup has produced `result`.
Step(tr, strategy, result) ==
    [tr EXCEPT !.steps = Append(@, [strategy |-> strategy, result |-> result])]

\* return r
Finish(tr, r) == [tr EXCEPT !.pc = "done", !.ret = r]

\* doctor_name or npi_number or license_number
ExtractedValue(a) == Or(Or(a.doctor_name, a.npi_number), a.license_number)

NoIdentifiers(a) ==
    VerificationResult(a.field_name, ExtractedValue(a), NOT_FOUND, NoDetails,
                       NoIdentifiersMessage)

\* The failure taken for a registry that has no record.
ExceptionResult_NotFound(a, e) ==
    VerificationResult(a.field_name, ExtractedValue(a), NOT_FOUND, NoDetails, None)

\* except asyncio.TimeoutError / except Exception as e
ExceptionResult(a, e) ==
    VerificationResult(a.field_name, ExtractedValue(a), ERROR, NoDetails,
                       IF e.type = "asyncio.TimeoutError" THEN TimeoutMessage ELSE e.message)

\* The failed request sent once more before the failure is reported.
OnException_Retried(tr, e) ==
    IF Len(tr.reqs) < 4 /\ tr.reqs # <<>>
    THEN Await(tr, tr.pc, tr.reqs[Len(tr.reqs)])
    ELSE Finish(tr, ExceptionResult(tr.args, e))

OnException(tr, e) == Finish(tr, ExceptionResult(tr.args, e))

\* if npi_number
NpiAttempted(a) == Truthy(a.npi_number)

\* if license_number and state and self.state_license_api_endpoint
LicenseAttempted(a) ==
    Truthy(a.license_number) /\ Truthy(a.state) /\ Truthy(state_license_api_endpoint)

\* The state forgotten in the condition.
NameAttempted_NoState(a) == Truthy(a.doctor_name)

\* if doctor_name and state
NameAttempted(a) == Truthy(a.doctor_name) /\ Truthy(a.state)

\* The name step returns whatever it produced.
AfterName(tr, result) == Finish(Step(tr, "name", result), result)

\* verify_doctor from `if doctor_name and state` on.
FromName(tr) ==
    IF NameAttempted(tr.args)
    THEN IF Len(NameParts(tr.args.doctor_name)) < 2
         THEN AfterName(tr, ParseError(tr.args.field_name, tr.args.doctor_name))
         ELSE Await(tr, "await_name",
                    NameRequest(FirstName(tr.args.doctor_name),
                                LastName(tr.args.doctor_name), tr.args.state))
    ELSE Finish(tr, NoIdentifiers(tr.args))

\* if result.status == VerificationStatus.VERIFIED: return result
AfterLicense(tr, result) ==
    IF result.status = VERIFIED
    THEN Finish(Step(tr, "license", result), result)
    ELSE FromName(Step(tr, "license", result))

\* verify_doctor from `if license_number and state and ...` on.
FromLicense(tr) ==
    IF LicenseAttempted(tr.args)
    THEN IF LicenseNotConfigured
         THEN AfterLicense(tr, LicenseSkipped(tr.args.field_name, tr.args.license_number))
         ELSE Await(tr, "await_license",
                    LicenseRequest(tr.args.license_number, tr.args.state))
    ELSE FromName(tr)

\* The early return after a verified NPI lookup left out.
AfterNpi_NoReturn(tr, result) == FromLicense(Step(tr, "npi", result))

\* if result.status == VerificationStatus.VERIFIED: return result
AfterNpi(tr, result) ==
    IF result.status = VERIFIED
    THEN Finish(Step(tr, "npi", result), result)
    ELSE FromLicense(Step(tr, "npi", result))

\* verify_doctor from its first statement on.
FromNpi(tr, c) ==
    IF NpiAttempted(tr.args)
    THEN IF tr.args.npi_number \in DOMAIN c
         THEN AfterNpi(tr, NpiCacheHit(c, tr.args.field_name, tr.args.npi_number))
         ELSE Await(tr, "await_npi", NpiRequest(tr.args.npi_number))
    ELSE FromLicense(tr)

Received(tr, strategy, response) ==
    [tr EXCEPT !.resp = [for |-> strategy, response |-> response]]

----------------------------------------------------------------------------
(* verify_handler.py: what VerifyHandler computes between two awaits.       *)
(* A confidence is held in hundredths: confidence_value is the float v / 100 *)
(* for the number v kept here, and confidence_threshold the float n / 100   *)
(* for a whole number n.                                                    *)

\* getattr(config, 'app_verify_confidence_threshold', 0.70), in hundredths.
DefaultThreshold == 70

\* "field_patterns": ["physician", "doctor", "npi", "license"]
FieldPatterns ==
    << <<"p","h","y","s","i","c","i","a","n">>, <<"d","o","c","t","o","r">>,
       <<"n","p","i">>, <<"l","i","c","e","n","s","e">> >>

\* The schema the hard-coded policy was written for, and another one.
TRS == <<"t","r","s">>
MemberCard == <<"m","c">>
SchemaIds == {TRS, MemberCard}

\* _load_schema_config(schema_id): the same policy for every schema.
LoadSchemaConfig(schema_id) ==
    [schema_id |-> schema_id,
     enabled_verification_types |-> <<"doctor">>,
     verification_rules |->
         [doctor |-> [field_patterns |-> FieldPatterns, required |-> TRUE]]]

\* not schema_config or not schema_config.get("enabled_verification_types")
NoPolicy(schema_config) ==
    Get(schema_config, "enabled_verification_types", <<>>) = <<>>

\* sub in s
Contains(s, sub) ==
    \E i \in 0..Len(s) : i + Len(sub) <= Len(s) /\ SubSeq(s, i + 1, i + Len(sub)) = sub

\* any(pattern.lower() in field_name for pattern in field_patterns)
MatchesPattern(field_name, field_patterns) ==
    \E k \in 1..Len(field_patterns) : Contains(field_name, Lower(field_patterns[k]))

\* item.Field.lower() if item.Field else ""
FieldName(item) == IF Truthy(item.Field) THEN Lower(item.Field) ELSE <<>>

\* The percent sign left where it is.
RStripPercent_Kept(s) == s

\* s.rstrip('%')
RECURSIVE RStripPercent(_)
RStripPercent(s) ==
    IF s # <<>> /\ s[Len(s)] = "%" THEN RStripPercent(SubSeq(s, 1, Len(s) - 1)) ELSE s

Digits == <<"0","1","2","3","4","5","6","7","8","9">>

\* c is one of 0..9, the decimal digits among the characters a string here
\* can hold.
DigitSet == {Digits[d] : d \in 1..10}
IsDigit(c) == c \in DigitSet

DigitValue(c) == (CHOOSE d \in 1..10 : Digits[d] = c) - 1

\* The number a run of decimal digits denotes.
RECURSIVE ToNumber(_)
ToNumber(s) ==
    IF s = <<>> THEN 0 ELSE 10 * ToNumber(SubSeq(s, 1, Len(s) - 1)) + DigitValue(s[Len(s)])

\* The decimal digits of a natural number.
RECURSIVE DigitsOf(_)
DigitsOf(n) ==
    IF n < 10 THEN <<Digits[n + 1]>> ELSE DigitsOf(n \div 10) \o <<Digits[(n % 10) + 1]>>

\* A float is kept as the number its text denotes: nan, an infinity, or the
\* whole number written by `digits` (no zero at either end; none for 0.0)
\* times 10 ** exp, negated when `negative`.  -0.0 is kept as 0.0, which it
\* equals.
NaN == [nan |-> TRUE]
Infinity(negative) == [inf |-> TRUE, negative |-> negative]
Zero == [negative |-> FALSE, digits |-> <<>>, exp |-> 0]

RECURSIVE DropLeadingZeros(_)
DropLeadingZeros(d) == IF d # <<>> /\ d[1] = "0" THEN DropLeadingZeros(Tail(d)) ELSE d

\* The number written by the digits d, times 10 ** e.
RECURSIVE Finite(_, _, _)
Finite(negative, d, e) ==
    LET ds == DropLeadingZeros(d) IN
    IF ds = <<>> THEN Zero
    ELSE IF ds[Len(ds)] = "0" THEN Finite(negative, SubSeq(ds, 1, Len(ds) - 1), e + 1)
    ELSE [negative |-> negative, digits |-> ds, exp |-> e]

\* The float of a whole number.
Whole(n) == IF n < 0 THEN Finite(TRUE, DigitsOf(0 - n), 0) ELSE Finite(FALSE, DigitsOf(n), 0)

\* How many digits a stands before the decimal point with, and its i-th
\* significant digit.
Point(a) == Len(a.digits) + a.exp
DigitAt(a, i) == IF i <= Len(a.digits) THEN DigitValue(a.digits[i]) ELSE 0

\* |a| < |b|, neither of them 0.
MagnitudeLess(a, b) ==
    IF Point(a) # Point(b) THEN Point(a) < Point(b)
    ELSE \E i \in 1..(Len(a.digits) + Len(b.digits)) :
             /\ DigitAt(a, i) < DigitAt(b, i)
             /\ \A j \in 1..(i - 1) : DigitAt(a, j) = DigitAt(b, j)

\* a < b for numbers that are neither nan nor infinite.
FiniteLess(a, b) ==
    IF a.digits = <<>> THEN b.digits # <<>> /\ ~b.negative
    ELSE IF b.digits = <<>> THEN a.negative
    ELSE IF a.negative # b.negative THEN a.negative
    ELSE IF a.negative THEN MagnitudeLess(b, a)
    ELSE MagnitudeLess(a, b)

\* The least magnitude a double rounds to an infinity, 2 ** 1024 - 2 ** 970
\* (halfway beyond the largest double; the tie goes to the infinity).
Huge ==
    [negative |-> FALSE, exp |-> 0,
     digits |->
        <<"1","7","9","7","6","9","3","1","3","4","8","6","2","3","1","5","8","0","7","9","3","7","2","8",
          "9","7","1","4","0","5","3","0","3","4","1","5","0","7","9","9","3","4","1","3","2","7","1","0",
          "0","3","7","8","2","6","9","3","6","1","7","3","7","7","8","9","8","0","4","4","4","9","6","8",
          "2","9","2","7","6","4","7","5","0","9","4","6","6","4","9","0","1","7","9","7","7","5","8","7",
          "2","0","7","0","9","6","3","3","0","2","8","6","4","1","6","6","9","2","8","8","7","9","1","0",
          "9","4","6","5","5","5","5","4","7","8","5","1","9","4","0","4","0","2","6","3","0","6","5","7",
          "4","8","8","6","7","1","5","0","5","8","2","0","6","8","1","9","0","8","9","0","2","0","0","0",
          "7","0","8","3","8","3","6","7","6","2","7","3","8","5","4","8","4","5","8","1","7","7","1","1",
          "5","3","1","7","6","4","4","7","5","7","3","0","2","7","0","0","6","9","8","5","5","5","7","1",
          "3","6","6","9","5","9","6","2","2","8","4","2","9","1","4","8","1","9","8","6","0","8","3","4",
          "9","3","6","4","7","5","2","9","2","7","1","9","0","7","4","1","6","8","4","4","4","3","6","5",
          "5","1","0","7","0","4","3","4","2","7","1","1","5","5","9","6","9","9","5","0","8","0","9","3",
          "0","4","2","8","8","0","1","7","7","9","0","4","1","7","4","4","9","7","7","9","2">>]

\* The greatest magnitude a double rounds to zero, 2 ** -1075 (half the
\* least double; the tie goes to zero), which is 5 ** 1075 / 10 ** 1075.
Tiny ==
    [negative |-> FALSE, exp |-> 0 - 1075,
     digits |->
        <<"2","4","7","0","3","2","8","2","2","9","2","0","6","2","3","2","7","2","0","8","8","2","8","4",
          "3","9","6","4","3","4","1","1","0","6","8","6","1","8","2","5","2","9","9","0","1","3","0","7",
          "1","6","2","3","8","2","2","1","2","7","9","2","8","4","1","2","5","0","3","3","7","7","5","3",
          "6","3","5","1","0","4","3","7","5","9","3","2","6","4","9","9","1","8","1","8","0","8","1","7",
          "9","9","6","1","8","9","8","9","8","2","8","2","3","4","7","7","2","2","8","5","8","8","6","5",
          "4","6","3","3","2","8","3","5","5","1","7","7","9","6","9","8","9","8","1","9","9","3","8","7",
          "3","9","8","0","0","5","3","9","0","9","3","9","0","6","3","1","5","0","3","5","6","5","9","5",
          "1","5","5","7","0","2","2","6","3","9","2","2","9","0","8","5","8","3","9","2","4","4","9","1",
          "0","5","1","8","4","4","3","5","9","3","1","8","0","2","8","4","9","9","3","6","5","3","6","1",
          "5","2","5","0","0","3","1","9","3","7","0","4","5","7","6","7","8","2","4","9","2","1","9","3",
          "6","5","6","2","3","6","6","9","8","6","3","6","5","8","4","8","0","7","5","7","0","0","1","5",
          "8","5","7","6","9","2","6","9","9","0","3","7","0","6","3","1","1","9","2","8","2","7","9","5",
          "5","8","5","5","1","3","3","2","9","2","7","8","3","4","3","3","8","4","0","9","3","5","1","9",
          "7","8","0","1","5","5","3","1","2","4","6","5","9","7","2","6","3","5","7","9","5","7","4","6",
          "2","2","7","6","6","4","6","5","2","7","2","8","2","7","2","2","0","0","5","6","3","7","4","0",
          "0","6","4","8","5","4","9","9","9","7","7","0","9","6","5","9","9","4","7","0","4","5","4","0",
          "2","0","8","2","8","1","6","6","2","2","6","2","3","7","8","5","7","3","9","3","4","5","0","7",
          "3","6","3","3","9","0","0","7","9","6","7","7","6","1","9","3","0","5","7","7","5","0","6","7",
          "4","0","1","7","6","3","2","4","6","7","3","6","0","0","9","6","8","9","5","1","3","4","0","5",
          "3","5","5","3","7","4","5","8","5","1","6","6","6","1","1","3","4","2","2","3","7","6","6","6",
          "7","8","6","0","4","1","6","2","1","5","9","6","8","0","4","6","1","9","1","4","4","6","7","2",
          "9","1","8","4","0","3","0","0","5","3","0","0","5","7","5","3","0","8","4","9","0","4","8","7",
          "6","5","3","9","1","7","1","1","3","8","6","5","9","1","6","4","6","2","3","9","5","2","4","9",
          "1","2","6","2","3","6","5","3","8","8","1","8","7","9","6","3","6","2","3","9","3","7","3","2",
          "8","0","4","2","3","8","9","1","0","1","8","6","7","2","3","4","8","4","9","7","6","6","8","2",
          "3","5","0","8","9","8","6","3","3","8","8","5","8","7","9","2","5","6","2","8","3","0","2","7",
          "5","5","9","9","5","6","5","7","5","2","4","4","5","5","5","0","7","2","5","5","1","8","9","3",
          "1","3","6","9","0","8","3","6","2","5","4","7","7","9","1","8","6","9","4","8","6","6","7","9",
          "9","4","9","6","8","3","2","4","0","4","9","7","0","5","8","2","1","0","2","8","5","1","3","1",
          "8","5","4","5","1","3","9","6","2","1","3","8","3","7","7","2","2","8","2","6","1","4","5","4",
          "3","7","6","9","3","4","1","2","5","3","2","0","9","8","5","9","1","3","2","7","6","6","7","2",
          "3","6","3","2","8","1","2","5">>]

\* The greatest magnitude whose double, divided by 100, is 0.0:
\* 101 * 2 ** -1075.  The double of anything up to 50.5 times the least
\* double is 50 times it or less, and a hundredth of that rounds to zero.
HundredthUnderflows ==
    [negative |-> FALSE, exp |-> 0 - 1075,
     digits |->
        <<"2","4","9","5","0","3","1","5","1","1","4","9","8","2","9","5","0","4","8","0","9","1","6","7",
          "2","4","0","3","9","8","4","5","1","7","9","3","0","4","4","3","5","5","2","0","0","3","2","0",
          "2","3","4","0","0","6","0","3","4","9","2","0","7","6","9","6","6","2","8","4","1","1","3","1",
          "1","7","1","4","5","5","4","1","9","6","9","1","9","7","6","4","1","7","3","6","2","6","2","6",
          "1","7","6","1","5","1","7","9","7","2","6","5","1","7","1","2","0","0","0","8","7","4","5","4",
          "1","1","7","9","6","1","6","3","8","7","2","9","7","4","9","5","9","7","1","8","1","3","8","1",
          "2","7","1","9","8","5","4","4","4","8","4","8","4","5","3","7","8","1","8","6","0","1","6","1",
          "1","0","7","2","5","9","2","8","6","5","6","2","1","3","7","6","6","9","7","6","3","7","3","5",
          "9","6","2","3","6","2","8","0","2","9","1","1","2","0","8","7","8","4","3","5","9","0","1","5",
          "1","4","0","2","5","3","2","2","5","6","4","1","6","2","2","5","5","0","3","1","7","1","1","5",
          "5","9","2","7","9","9","0","6","5","6","2","2","9","5","0","6","5","5","6","4","5","7","1","6",
          "0","1","6","2","6","9","6","2","6","0","2","7","4","3","3","7","5","0","4","7","5","6","2","3",
          "5","4","1","3","6","8","4","6","2","5","7","1","1","2","6","8","1","7","9","3","4","4","5","4",
          "9","7","7","9","5","6","8","6","5","5","9","0","6","3","2","3","6","2","1","5","3","7","0","3",
          "6","8","9","9","4","1","2","9","9","2","5","5","5","5","4","9","2","2","5","6","9","3","7","7",
          "4","6","5","5","0","3","5","4","9","7","6","8","6","7","5","6","5","4","6","5","1","5","8","5",
          "6","1","0","3","6","4","4","7","8","8","8","5","0","0","2","3","5","9","6","7","3","8","5","2",
          "4","3","7","0","2","3","9","8","0","4","7","4","3","9","5","4","9","8","8","3","2","8","1","8",
          "0","7","5","7","8","0","8","7","9","2","0","3","3","6","9","7","8","6","4","0","8","5","3","9",
          "4","0","8","9","2","8","3","3","1","0","1","8","2","7","7","4","5","5","6","6","0","0","4","3",
          "4","5","3","9","0","2","0","3","7","8","1","2","7","7","2","6","6","5","3","3","6","1","1","9",
          "6","4","7","5","8","7","0","3","5","3","5","3","5","8","1","0","6","1","5","7","5","3","9","2",
          "5","3","0","4","5","6","2","8","5","0","0","4","5","7","5","6","2","7","0","1","9","2","0","1",
          "6","1","7","4","9","8","9","0","4","2","0","6","9","8","4","3","2","6","0","1","7","6","7","0",
          "1","3","2","2","8","1","2","9","9","2","8","8","5","9","0","7","1","9","8","2","6","4","4","9",
          "1","7","4","4","0","7","6","2","0","2","2","4","7","3","8","0","4","8","8","4","5","8","5","7",
          "8","3","5","5","5","6","1","4","0","9","9","7","0","0","0","6","2","3","2","7","7","4","1","2",
          "0","6","8","2","7","7","4","4","6","1","7","3","2","6","9","7","8","8","1","8","1","5","4","6",
          "7","4","9","1","8","0","0","7","2","9","0","2","0","2","8","7","9","2","3","8","7","9","8","3",
          "1","7","3","0","5","9","1","0","1","7","5","9","7","6","1","0","0","0","5","4","4","0","6","8",
          "9","2","0","7","0","3","4","6","6","5","7","4","1","9","5","7","7","2","4","0","9","4","3","9",
          "0","8","6","9","1","4","0","6","2","5">>]

\* The double of a number: an infinity beyond the range, 0.0 below it.
InRange(a) ==
    IF a = Zero THEN Zero
    ELSE IF ~MagnitudeLess(a, Huge) THEN Infinity(a.negative)
    ELSE IF ~MagnitudeLess(Tiny, a) THEN Zero
    ELSE a

(* The doubles themselves, for a number so close to the threshold that the  *)
(* rounding of float() and of the division by 100 decides the comparison.   *)
(* A double is m * 2 ** e with 2 ** 52 <= m < 2 ** 53; whole numbers are     *)
(* written as sequences of digit values, most significant first.            *)

TwoTo52 == <<4,5,0,3,5,9,9,6,2,7,3,7,0,4,9,6>>
TwoTo53 == <<9,0,0,7,1,9,9,2,5,4,7,4,0,9,9,2>>

ValuesOf(digits) == [i \in 1..Len(digits) |-> DigitValue(digits[i])]

\* The digit values of a whole number.
RECURSIVE ValuesOfWhole(_)
ValuesOfWhole(n) == IF n < 10 THEN <<n>> ELSE ValuesOfWhole(n \div 10) \o <<n % 10>>

\* The last Len(d) digits of d * k + c, and what is carried beyond them; the
\* lower half of d carries into the upper half, which a sum that carries
\* nothing leaves as it is.
RECURSIVE Product(_, _, _)
Product(d, k, c) ==
    IF Len(d) = 1
    THEN [digits |-> <<(d[1] * k + c) % 10>>, carry |-> (d[1] * k + c) \div 10]
    ELSE LET half == Len(d) \div 2
             low == Product(SubSeq(d, half + 1, Len(d)), k, c)
             high == Product(SubSeq(d, 1, half), k, low.carry)
         IN  IF low.carry = 0 /\ k = 1
             THEN [digits |-> SubSeq(d, 1, half) \o low.digits, carry |-> 0]
             ELSE [digits |-> high.digits \o low.digits, carry |-> high.carry]

\* d * k + c, for d above 0 and k and c of 24 bits at most.
TimesPlus(d, k, c) ==
    LET p == Product(d, k, c)
    IN  IF p.carry = 0 THEN p.digits ELSE ValuesOfWhole(p.carry) \o p.digits

ValueAt(d, i) == IF i <= Len(d) THEN d[i] ELSE 0

\* d * 10 ** E >= c, for a whole number c.
AtLeast(d, E, c) ==
    IF Len(d) + E # Len(c) THEN Len(d) + E > Len(c)
    ELSE ~\E i \in 1..(Len(d) + Len(c)) :
              /\ ValueAt(d, i) < ValueAt(c, i)
              /\ \A j \in 1..(i - 1) : ValueAt(d, j) = ValueAt(c, j)

TwoTo28 == <<2,6,8,4,3,5,4,5,6>>
TwoTo46 == <<7,0,3,6,8,7,4,4,1,7,7,6,6,4>>

\* The number d * 10 ** E times the power of two that brings it to 53 bits,
\* and the exponent e of the power of two that takes it back: times 2 ** 24
\* and 2 ** 6 while that leaves it below 2 ** 52, then times 2; halved
\* (5 / 10) from 2 ** 53 on.
RECURSIVE Scaled(_, _, _)
Scaled(d, E, e) ==
    IF ~AtLeast(d, E, TwoTo28) THEN Scaled(TimesPlus(d, 16777216, 0), E, e - 24)
    ELSE IF ~AtLeast(d, E, TwoTo46) THEN Scaled(TimesPlus(d, 64, 0), E, e - 6)
    ELSE IF ~AtLeast(d, E, TwoTo52) THEN Scaled(TimesPlus(d, 2, 0), E, e - 1)
    ELSE IF AtLeast(d, E, TwoTo53) THEN Scaled(TimesPlus(d, 5, 0), E - 1, e + 1)
    ELSE [digits |-> d, exp |-> E, e |-> e]

\* The whole number nearest to d * 10 ** E, the even one of two as near.
Nearest(d, E) ==
    IF E >= 0 THEN d \o [i \in 1..E |-> 0]
    ELSE LET whole == SubSeq(d, 1, Len(d) + E)
             rest == SubSeq(d, Len(d) + E + 1, Len(d))
             up == \/ rest[1] > 5
                   \/ /\ rest[1] = 5
                      /\ \/ \E i \in 2..Len(rest) : rest[i] # 0
                         \/ whole[Len(whole)] % 2 = 1
         IN  IF up THEN TimesPlus(whole, 1, 1) ELSE whole

\* The double nearest to d * 10 ** E, a number within the normal range.
Double(d, E) ==
    LET s == Scaled(d, E, 0)
        m == Nearest(s.digits, s.exp)
    IN  IF m = TwoTo53 THEN [m |-> TwoTo52, e |-> s.e + 1] ELSE [m |-> m, e |-> s.e]

\* f / 100 for a double f.
Hundredth(f) == LET q == Double(f.m, 0 - 2) IN [m |-> q.m, e |-> q.e + f.e]

\* f < g for doubles above 0.
DoubleLess(f, g) == f.e < g.e \/ (f.e = g.e /\ ~AtLeast(f.m, 0, g.m))

\* |float(text) / 100| for the number a, and |n / 100|, as doubles.
ConfidenceDouble(a) == Hundredth(Double(ValuesOf(a.digits), a.exp))
ThresholdDouble(n) == Double(ValuesOf(DigitsOf(IF n < 0 THEN 0 - n ELSE n)), 0 - 2)

\* n - 0.1 and n + 0.1 for a whole number n other than 0.
TenthBelow(n) ==
    IF n > 0 THEN Finite(FALSE, DigitsOf(n - 1) \o <<"9">>, 0 - 1)
    ELSE Finite(TRUE, DigitsOf(0 - n) \o <<"1">>, 0 - 1)
TenthAbove(n) ==
    IF n > 0 THEN Finite(FALSE, DigitsOf(n) \o <<"1">>, 0 - 1)
    ELSE Finite(TRUE, DigitsOf(0 - n - 1) \o <<"9">>, 0 - 1)

\* The number a is a tenth or more away from the whole number n.
Apart(a, n) == ~FiniteLess(TenthBelow(n), a) \/ ~FiniteLess(a, TenthAbove(n))

\* The comparison of a with n is the comparison of their doubles' hundredths
\* whatever the roundings: a has no more than the 15 significant digits a
\* double keeps, or is a tenth or more away from n.
Exact(a, n) == Len(a.digits) <= 15 \/ Apart(a, n)

\* float(text) / 100 < n / 100, for the float a of the text and a whole
\* number n of hundredths; False of nan.  Neither rounding takes a number
\* past another: a at n or above is not less.  A hundredth of a negative
\* number is less than 0.0 unless it rounds to -0.0.
Less(a, n) ==
    IF "nan" \in DOMAIN a THEN FALSE
    ELSE IF "inf" \in DOMAIN a THEN a.negative
    ELSE IF ~FiniteLess(a, Whole(n)) THEN FALSE
    ELSE IF n = 0 THEN MagnitudeLess(HundredthUnderflows, a)
    ELSE IF Exact(a, n) THEN TRUE
    ELSE IF n < 0 THEN DoubleLess(ThresholdDouble(n), ConfidenceDouble(a))
    ELSE DoubleLess(ConfidenceDouble(a), ThresholdDouble(n))

\* The same with <=.
LessOrEqual(a, n) ==
    IF "nan" \in DOMAIN a THEN FALSE
    ELSE IF "inf" \in DOMAIN a THEN a.negative
    ELSE IF ~FiniteLess(Whole(n), a) THEN TRUE
    ELSE IF n = 0 THEN ~MagnitudeLess(HundredthUnderflows, a)
    ELSE IF Exact(a, n) THEN FALSE
    ELSE IF n < 0 THEN ~DoubleLess(ConfidenceDouble(a), ThresholdDouble(n))
    ELSE ~DoubleLess(ThresholdDouble(n), ConfidenceDouble(a))

\* The whitespace float() drops around its text: the whitespace of str but
\* for the separators U+001C..U+001F, which float() takes as they are.
FloatWhitespace == Whitespace \ {FS, GS, RS, US}
IsFloatSpace(c) == c \in FloatWhitespace

FloatStrip(s) ==
    LET kept == {i \in 1..Len(s) : ~IsFloatSpace(s[i])} IN
    IF kept = {} THEN <<>>
    ELSE SubSeq(s, CHOOSE i \in kept : \A j \in kept : i <= j,
                   CHOOSE i \in kept : \A j \in kept : i >= j)

\* The text after a leading sign.
Unsigned(s) == IF s # <<>> /\ s[1] \in {"+", "-"} THEN Tail(s) ELSE s

\* Where the first of the characters cs stands in s, the text before it and
\* the text after it; s has none when that place is beyond its end.
FirstOf(s, cs) ==
    LET at == {i \in 1..Len(s) : s[i] \in cs} IN
    IF at = {} THEN Len(s) + 1 ELSE CHOOSE i \in at : \A j \in at : i <= j
Before(s, cs) == SubSeq(s, 1, FirstOf(s, cs) - 1)
After(s, cs) == SubSeq(s, FirstOf(s, cs) + 1, Len(s))

\* digit (["_"] digit)*
IsDigitPart(s) ==
    /\ s # <<>>
    /\ IsDigit(s[1])
    /\ IsDigit(s[Len(s)])
    /\ \A i \in 1..Len(s) : IsDigit(s[i]) \/ s[i] = "_"
    /\ \A i \in 1..(Len(s) - 1) : ~(s[i] = "_" /\ s[i + 1] = "_")

DigitsIn(s) == SelectSeq(s, IsDigit)

\* [digitpart] "." digitpart | digitpart ["."]
IsMantissa(m) ==
    LET int == Before(m, {"."})
        frac == After(m, {"."})
    IN  IF Len(int) = Len(m) THEN IsDigitPart(m)
        ELSE IF int = <<>> THEN IsDigitPart(frac)
        ELSE IsDigitPart(int) /\ (frac = <<>> \/ IsDigitPart(frac))

\* number [("e" | "E") ["+" | "-"] digitpart]
IsDecimal(u) ==
    LET m == Before(u, {"e", "E"}) IN
    /\ IsMantissa(m)
    /\ (Len(m) < Len(u)) => IsDigitPart(Unsigned(After(u, {"e", "E"})))

\* "nan", and "inf" or "infinity", in any case.
IsNanText(u) == Len(u) = 3 /\ Lower(u) = <<"n","a","n">>
IsInfText(u) ==
    \/ Len(u) = 3 /\ Lower(u) = <<"i","n","f">>
    \/ Len(u) = 8 /\ Lower(u) = <<"i","n","f","i","n","i","t","y">>

\* float(s) returns: s is, between whitespace, an optional sign and then a
\* decimal number, nan or an infinity.  On any other text it raises
\* ValueError.
IsFloat(s) ==
    LET u == Unsigned(FloatStrip(s)) IN IsNanText(u) \/ IsInfText(u) \/ IsDecimal(u)

\* The exponent written by x, an optional sign and digits; one of seven
\* digits or more is beyond every double and is kept as a million.
ExponentOf(x) ==
    LET d == DropLeadingZeros(DigitsIn(x))
        e == IF Len(d) > 6 THEN 1000000 ELSE ToNumber(d)
    IN  IF x # <<>> /\ x[1] = "-" THEN 0 - e ELSE e

\* float(s), for a text of which IsFloat holds.
FloatOf(s) ==
    LET t == FloatStrip(s)
        negative == t[1] = "-"
        u == Unsigned(t)
        m == Before(u, {"e", "E"})
        frac == DigitsIn(After(m, {"."}))
    IN  IF IsNanText(u) THEN NaN
        ELSE IF IsInfText(u) THEN Infinity(negative)
        ELSE InRange(Finite(negative, DigitsIn(Before(m, {"."})) \o frac,
                            ExponentOf(After(u, {"e", "E"})) - Len(frac)))

\* float(item.Confidence.rstrip('%')) / 100 if item.Confidence else 0.0, and
\* 0.0 when float() raises, in hundredths.  A Confidence that is no str
\* (NotText) has no rstrip: the AttributeError is caught by the same bare
\* except.
ConfidenceValue(Confidence) ==
    LET text == RStripPercent(Confidence) IN
    IF ~Truthy(Confidence) THEN Zero
    ELSE IF IsFloat(text) THEN FloatOf(text)
    ELSE Zero

\* The comparison made with <=.
LowConfidence_OrEqual(confidence_value, confidence_threshold) ==
    LessOrEqual(confidence_value, confidence_threshold)

\* if confidence_value < self.confidence_threshold
LowConfidence(confidence_value, confidence_threshold) ==
    Less(confidence_value, confidence_threshold)

BelowThresholdMessage ==
    Msg("Confidence {confidence_value:.2%} below threshold {self.confidence_threshold:.2%}")
NeedsStateMessage == Msg("State license verification requires state code")

\* The SKIPPED result of a field whose confidence is below the threshold.
SkippedLowConfidence(item) ==
    VerificationResult(item.Field, item.Extracted, SKIPPED, NoDetails, BelowThresholdMessage)

\* The SKIPPED result of a license field.
SkippedLicenseField(item) ==
    VerificationResult(item.Field, item.Extracted, SKIPPED, NoDetails, NeedsStateMessage)

\* The extracted value handed over as a license number of the state NY too.
VerifyArgs_WithLicense(item) ==
    [field_name |-> item.Field, doctor_name |-> None,
     npi_number |-> IF Truthy(item.Extracted) THEN item.Extracted ELSE None,
     license_number |-> item.Extracted, state |-> <<"N","Y">>]

\* The arguments of self.doctor_verifier.verify_doctor(field_name=item.Field,
\* npi_number=str(item.Extracted) if item.Extracted else None, ...); Extracted
\* is a text here, which str() returns as it is.
VerifyArgs(item) ==
    [field_name |-> item.Field, doctor_name |-> None,
     npi_number |-> IF Truthy(item.Extracted) THEN item.Extracted ELSE None,
     license_number |-> None, state |-> None]

\* results = {} and results[item.Field] = result
EmptyResults == [k \in {} |-> NoResult]
PutResult(results, field, result) ==
    [k \in DOMAIN results \cup {field} |-> IF k = field THEN result ELSE results[k]]

\* _update_comparison_data: the items, those with a result annotated with it.
Annotated(items, results) ==
    [k \in 1..Len(items) |->
        IF items[k].Field \in DOMAIN results
        THEN [Field |-> items[k].Field, Extracted |-> items[k].Extracted,
              Confidence |-> items[k].Confidence,
              VerificationStatus |-> results[items[k].Field].status,
              VerificationDetails |-> results[items[k].Field].details]
        ELSE items[k]]

\* SKIPPED results left out of the count.
StatusCount_NoSkipped(results, status) ==
    IF status = SKIPPED THEN 0
    ELSE Cardinality({f \in DOMAIN results : results[f].status = status})

\* status_counts[status] after the loop over results.values()
StatusCount(results, status) ==
    Cardinality({f \in DOMAIN results : results[f].status = status})

\* _create_verification_metadata(results), without its clock readings.
CreateVerificationMetadata(results) ==
    [total_fields_checked |-> Cardinality(DOMAIN results),
     verified_count |-> StatusCount(results, VERIFIED),
     not_found_count |-> StatusCount(results, NOT_FOUND),
     invalid_count |-> StatusCount(results, INVALID),
     expired_count |-> StatusCount(results, EXPIRED),
     revoked_count |-> StatusCount(results, REVOKED),
     error_count |-> StatusCount(results, ERROR),
     skipped_count |-> StatusCount(results, SKIPPED),
     total_api_calls |-> Cardinality(DOMAIN results),
     verifications_by_type |->
         [doctor |-> [verified |-> StatusCount(results, VERIFIED),
                      not_found |-> StatusCount(results, NOT_FOUND),
                      error |-> StatusCount(results, ERROR),
                      skipped |-> StatusCount(results, SKIPPED)]]]

\* _create_passthrough_result(context)
PassthroughResult ==
    [result |-> "skipped",
     message |-> "Verification disabled or not configured for this schema"]

OutputFile == "verify_output.json"

\* The StepResult.result of a completed verification.
SuccessResult(metadata) ==
    [result |-> "success",
     file_name |-> OutputFile,
     total_fields_checked |-> metadata.total_fields_checked,
     verified_count |-> metadata.verified_count,
     not_found_count |-> metadata.not_found_count,
     error_count |-> metadata.error_count]

----------------------------------------------------------------------------
(* verify_handler.py: VerifyHandler.execute.  The only awaits that suspend  *)
(* it are the registry requests of verify_doctor; the rest of execute runs  *)
(* in one step.                                                             *)

\* The steps of execute that call out of the handler and may raise.
StepsBeforeFields == {"download", "deserialize", "config", "verification"}
StepsAfterFields == {"annotation", "metadata", "add_file", "upload"}
NoFault == "none"
Faults == StepsBeforeFields \cup StepsAfterFields \cup {NoFault}

\* A VerifyHandler that is not executing: self.enabled and
\* self.confidence_threshold from the configuration, and nothing done yet.
IdleHandler(enabled, confidence_threshold) ==
    [pc |-> "idle", enabled |-> enabled, confidence_threshold |-> confidence_threshold,
     schema_id |-> None, items |-> <<>>, i |-> 0, results |-> EmptyResults,
     calls |-> <<>>, downloaded |-> FALSE, annotated |-> <<>>, metadata |-> NoResult,
     files |-> <<>>, uploaded |-> NoResult, fault |-> NoFault, ret |-> NoResult]

\* What execute has become after a step: the handler and the verify_doctor
\* call it is suspended in, if any.
Running(h, call) == [handler |-> h, call |-> call]

\* return await self._create_passthrough_result(context)
Passthrough(h) == [h EXCEPT !.pc = "done", !.ret = PassthroughResult]

\* The exception let through to the pipeline.
Caught_Reraised(h, step) ==
    [h EXCEPT !.pc = "done", !.fault = step, !.ret = [result |-> "raised"]]

\* except Exception as e: ... return await self._create_passthrough_result(context)
Caught(h, step) == [Passthrough(h) EXCEPT !.fault = step]

\* The download made before the enabled check.
WhenDisabled_AfterDownload(h) == Passthrough([h EXCEPT !.downloaded = TRUE])

\* if not self.enabled: return await self._create_passthrough_result(context)
WhenDisabled(h) == Passthrough(h)

\* execute from _update_comparison_data on; the step named by fault raises.
Finalize(h, fault) ==
    LET annotated == [h EXCEPT !.annotated = Annotated(h.items, h.results)]
        summed == [annotated EXCEPT !.metadata = CreateVerificationMetadata(h.results)]
        added == [summed EXCEPT !.files = Append(@, OutputFile)]
        uploaded == [added EXCEPT !.uploaded =
                        [comparison_result |-> added.annotated,
                         verification_metadata |-> added.metadata]]
    IN IF fault = "annotation" THEN Caught(h, fault)
       ELSE IF fault = "metadata" THEN Caught(annotated, fault)
       ELSE IF fault = "add_file" THEN Caught(summed, fault)
       ELSE IF fault = "upload" THEN Caught(added, fault)
       ELSE [uploaded EXCEPT !.pc = "done", !.ret = SuccessResult(uploaded.metadata)]

\* results[item.Field] = result
Record(h, i, result) == [h EXCEPT !.results = PutResult(@, h.items[i].Field, result)]

\* result = await self.doctor_verifier.verify_doctor(...) has returned in call
\* tr; results[item.Field] = result
AfterVerify(h, i, tr) ==
    [Record(h, i, tr.ret) EXCEPT
        !.calls = Append(@, [index |-> i, reqs |-> tr.reqs, resp |-> tr.resp,
                             result |-> tr.ret])]

\* The loop left at the first ERROR.
NextItem_StopOnError(h, i, result) ==
    IF result.status = ERROR THEN Len(h.items) + 1 ELSE i + 1

\* for item in evaluate_result.comparison_result.items: the item after item i.
NextItem(h, i, result) == i + 1

\* _verify_doctor_fields from item i on, then the rest of execute, the cache
\* being c: up to the first verify_doctor that has to wait for the registry.
RECURSIVE VerifyDoctorFields(_, _, _, _)
VerifyDoctorFields(h, i, c, fault) ==
    IF i > Len(h.items) THEN Running(Finalize(h, fault), IdleTask)
    ELSE LET item == h.items[i]
             field_name == FieldName(item)
             field_patterns ==
                 LoadSchemaConfig(h.schema_id).verification_rules.doctor.field_patterns
             call == FromNpi(NewCall(VerifyArgs(item), c), c)
         IN IF ~MatchesPattern(field_name, field_patterns)
            THEN VerifyDoctorFields(h, i + 1, c, fault)
            ELSE IF LowConfidence(ConfidenceValue(item.Confidence), h.confidence_threshold)
            THEN VerifyDoctorFields(Record(h, i, SkippedLowConfidence(item)), i + 1, c, fault)
            ELSE IF Contains(field_name, <<"n","p","i">>)
            THEN IF call.pc = "done"
                 THEN VerifyDoctorFields(AfterVerify(h, i, call),
                                         NextItem(h, i, call.ret), c, fault)
                 ELSE Running([h EXCEPT !.pc = "await_verify", !.i = i], call)
            ELSE IF Contains(field_name, <<"l","i","c","e","n","s","e">>)
            THEN VerifyDoctorFields(Record(h, i, SkippedLicenseField(item)), i + 1, c, fault)
            ELSE VerifyDoctorFields(h, i + 1, c, fault)

\* execute(context) from its first statement on, for a message whose schema
\* is schema_id and whose evaluate output holds items.
ExecuteFrom(h, schema_id, items, c, fault) ==
    LET entered == [h EXCEPT !.schema_id = schema_id]
        downloaded == [entered EXCEPT !.downloaded = TRUE]
        loaded == [downloaded EXCEPT !.items = items]
    IN IF ~h.enabled THEN Running(WhenDisabled(entered), IdleTask)
       ELSE IF fault = "download" THEN Running(Caught(entered, fault), IdleTask)
       ELSE IF fault = "deserialize" THEN Running(Caught(downloaded, fault), IdleTask)
       ELSE IF fault = "config" THEN Running(Caught(loaded, fault), IdleTask)
       ELSE IF NoPolicy(LoadSchemaConfig(schema_id))
       THEN Running(Passthrough(loaded), IdleTask)
       ELSE IF fault = "verification" THEN Running(Caught(loaded, fault), IdleTask)
       ELSE VerifyDoctorFields(loaded, 1, c, fault)

----------------------------------------------------------------------------
(* confidence.py (evaluate_handler): the confidence aggregation that        *)
(* test_confidence_calculation.py exercises.  A confidence is a whole       *)
(* number of ten-thousandths, so that rounding to 3 decimal places is a     *)
(* rounding to a multiple of 10; null is Null.  A structure is a leaf       *)
(* {"confidence": c, "value": v}, a mapping (its items in order), a list,   *)
(* or a value that is none of these.                                        *)

Null == 0 - 1
IsNull(c) == c = Null

Leaf(confidence, value) == [kind |-> "leaf", confidence |-> confidence, value |-> value]
Item(key, node) == [key |-> key, node |-> node]
Dict(items) == [kind |-> "dict", items |-> items]
List(items) == [kind |-> "list", items |-> items]
Scalar(value) == [kind |-> "scalar", value |-> value]

\* round(x, 3): the multiple of 10 nearest to x, the even one of two that
\* are equally near.
Round3(x) ==
    LET q == x \div 10
        r == x % 10
    IN IF r < 5 THEN 10 * q
       ELSE IF r > 5 THEN 10 * (q + 1)
       ELSE IF q % 2 = 0 THEN 10 * q ELSE 10 * (q + 1)

RECURSIVE Sum(_)
Sum(s) == IF s = <<>> THEN 0 ELSE s[1] + Sum(Tail(s))

RECURSIVE MinOf(_)
MinOf(s) ==
    IF Len(s) = 1 THEN s[1]
    ELSE LET m == MinOf(Tail(s)) IN IF s[1] < m THEN s[1] ELSE m

\* round(sum(scores) / len(scores), 3)
RoundedMean(scores) ==
    LET n == Len(scores)
        q == Sum(scores) \div (10 * n)
        twice == 2 * (Sum(scores) - q * 10 * n)
    IN IF twice < 10 * n THEN 10 * q
       ELSE IF twice > 10 * n THEN 10 * (q + 1)
       ELSE IF q % 2 = 0 THEN 10 * q ELSE 10 * (q + 1)

RECURSIVE Flatten(_)
Flatten(ss) == IF ss = <<>> THEN <<>> ELSE ss[1] \o Flatten(Tail(ss))

\* A zero confidence counted as a score.
Scored_WithZero(confidence) == ~IsNull(confidence)

\* A confidence that counts: present, not null and greater than 0.
Scored(confidence) == ~IsNull(confidence) /\ confidence > 0

\* get_confidence_values(data): the confidences that count, of the leaves at
\* any depth, in the order of the structure.
RECURSIVE GetConfidenceValues(_)
GetConfidenceValues(data) ==
    IF data.kind = "leaf"
    THEN IF Scored(data.confidence) THEN <<data.confidence>> ELSE <<>>
    ELSE IF data.kind = "dict"
    THEN Flatten([k \in 1..Len(data.items) |-> GetConfidenceValues(data.items[k].node)])
    ELSE IF data.kind = "list"
    THEN Flatten([k \in 1..Len(data.items) |-> GetConfidenceValues(data.items[k])])
    ELSE <<>>

\* The path of the member `key` of the mapping at `prefix`.
KeyPath(prefix, key) == IF prefix = <<>> THEN key ELSE prefix \o <<".">> \o key

\* Positions counted from 1 in the path.
IndexPath_FromOne(prefix, i) == prefix \o <<"[">> \o <<Digits[i + 2]>> \o <<"]">>

\* The path of element i (from 0) of the list at `prefix`.
IndexPath(prefix, i) == prefix \o <<"[">> \o <<Digits[i + 1]>> \o <<"]">>

\* The confidence a leaf is compared by: a null one counts as zero.
LeafScore(confidence) == IF IsNull(confidence) THEN 0 ELSE confidence

\* The comparison made with < : a leaf at the threshold left out.
AtMost_Strict(confidence, threshold) == LeafScore(confidence) < threshold

\* confidence <= threshold
AtMost(confidence, threshold) == LeafScore(confidence) <= threshold

\* find_keys_with_min_confidence(data, threshold): the paths of the leaves
\* whose confidence is at most the threshold, in the order of the structure.
RECURSIVE FindKeys(_, _, _)
FindKeys(data, threshold, prefix) ==
    IF data.kind = "leaf"
    THEN IF AtMost(data.confidence, threshold) THEN <<prefix>> ELSE <<>>
    ELSE IF data.kind = "dict"
    THEN Flatten([k \in 1..Len(data.items) |->
                    FindKeys(data.items[k].node, threshold,
                             KeyPath(prefix, data.items[k].key))])
    ELSE IF data.kind = "list"
    THEN Flatten([k \in 1..Len(data.items) |->
                    FindKeys(data.items[k], threshold, IndexPath(prefix, k - 1))])
    ELSE <<>>

FindKeysWithMinConfidence(data, threshold) == FindKeys(data, threshold, <<>>)

\* The larger of the two taken.
MergedConfidence_Max(a, b) ==
    IF IsNull(a) /\ IsNull(b) THEN 0
    ELSE IF IsNull(a) THEN Round3(b)
    ELSE IF IsNull(b) THEN Round3(a)
    ELSE Round3(IF a > b THEN a ELSE b)

\* The merged confidence of a leaf: min(a, b) of two that are not null, the
\* one that is not null of an a and a b of which one is null, and zero of
\* two nulls; rounded.
MergedConfidence(a, b) ==
    IF IsNull(a) /\ IsNull(b) THEN 0
    ELSE IF IsNull(a) THEN Round3(b)
    ELSE IF IsNull(b) THEN Round3(a)
    ELSE Round3(IF a < b THEN a ELSE b)

\* The two trees merged leaf by leaf, mappings key by key and lists position
\* by position; the two have the same shape.
RECURSIVE MergeField(_, _)
MergeField(a, b) ==
    IF a.kind = "leaf"
    THEN Leaf(MergedConfidence(a.confidence, b.confidence), a.value)
    ELSE IF a.kind = "dict"
    THEN Dict([k \in 1..Len(a.items) |->
                 Item(a.items[k].key, MergeField(a.items[k].node, b.items[k].node))])
    ELSE IF a.kind = "list"
    THEN List([k \in 1..Len(a.items) |-> MergeField(a.items[k], b.items[k])])
    ELSE a

\* Every leaf taken to be counted.
ZeroFields_None(merged) == <<>>

\* The paths of the merged leaves that are not counted.
ZeroFields(merged) == FindKeysWithMinConfidence(merged, 0)

\* merge_confidence_values(confidence_a, confidence_b): the merged tree and
\* the summary made of it.
MergeConfidenceValues(confidence_a, confidence_b) ==
    LET merged == MergeField(confidence_a, confidence_b)
        scores == GetConfidenceValues(merged)
    IN [merged |-> merged,
        overall_confidence |-> IF scores = <<>> THEN 0 ELSE RoundedMean(scores),
        total_evaluated_fields_count |-> Len(scores),
        min_extracted_field_confidence |-> IF scores = <<>> THEN 0 ELSE MinOf(scores),
        zero_confidence_fields |-> ZeroFields(merged),
        zero_confidence_fields_count |-> Len(ZeroFields(merged))]

----------------------------------------------------------------------------
(* The steps. *)

\* Another DoctorCredentialVerifier() of the same process, as __init__ leaves
\* it (self.cache = {}), with the one verify_doctor it may be running; seen is
\* the first verifier's cache as it was when that call was entered.
IdlePeer == [cache |-> EmptyCache, task |-> IdleTask, seen |-> EmptyCache]

\* No confidence structure given.
NoAggregate ==
    [a |-> Dict(<<>>), b |-> Dict(<<>>), threshold |-> 0, op |-> "none", out |-> NoResult]

Init ==
    /\ cache = EmptyCache
    /\ state_license_api_endpoint \in {None, URL}
    /\ api_key \in {None, KEY}
    /\ task = [t \in Tasks |-> IdleTask]
    /\ prev = IdleTask
    /\ handler = IdleHandler(TRUE, DefaultThreshold)
    /\ peer = IdlePeer
    /\ aggregate = NoAggregate

\* verify_doctor(**a) is entered in slot t and runs to its first await.
Start(t, a) ==
    /\ task[t].pc = "idle"
    /\ task' = [task EXCEPT ![t] = FromNpi(NewCall(a, cache), cache)]
    /\ UNCHANGED <<cache, state_license_api_endpoint, api_key, prev, handler, peer, aggregate>>

FirstTask == CHOOSE t \in Tasks : \A u \in Tasks : t <= u

\* A caller that awaits each verify_doctor before the next one (the loop of
\* VerifyHandler._verify_doctor_fields): no other call is in progress.
Call(a) ==
    /\ \A u \in Tasks : task[u].pc = "idle"
    /\ Start(FirstTask, a)

\* The NPI registry answers the lookup by number.
NpiResponds(t, response) ==
    /\ task[t].pc = "await_npi"
    /\ LET tr == Received(task[t], "npi", response)
           out == NpiOnResponse(cache, tr.args.field_name, tr.args.npi_number, response)
       IN IF out.kind = "raise"
          THEN /\ task' = [task EXCEPT ![t] = OnException(tr, out.exc)]
               /\ UNCHANGED cache
          ELSE /\ task' = [task EXCEPT ![t] = AfterNpi(tr, out.result)]
               /\ cache' = out.cache
    /\ UNCHANGED <<state_license_api_endpoint, api_key, prev, handler, peer, aggregate>>

\* The license registry answers.
LicenseResponds(t, response) ==
    /\ task[t].pc = "await_license"
    /\ LET tr == Received(task[t], "license", response)
       IN task' = [task EXCEPT ![t] =
                      AfterLicense(tr, LicenseOnResponse(tr.args.field_name,
                                                         tr.args.license_number, response))]
    /\ UNCHANGED <<cache, state_license_api_endpoint, api_key, prev, handler, peer, aggregate>>

\* The NPI registry answers the lookup by name.
NameResponds(t, response) ==
    /\ task[t].pc = "await_name"
    /\ LET tr == Received(task[t], "name", response)
           sent == tr.reqs[Len(tr.reqs)].params
       IN task' = [task EXCEPT ![t] =
                      AfterName(tr, NameOnResponse(tr.args.field_name, tr.args.doctor_name,
                                                   tr.args.state, sent.first_name,
                                                   sent.last_name, response))]
    /\ UNCHANGED <<cache, state_license_api_endpoint, api_key, prev, handler, peer, aggregate>>

Strategy(pc) ==
    IF pc = "await_npi" THEN "npi" ELSE IF pc = "await_license" THEN "license" ELSE "name"

\* The awaited request raises instead of returning a response.
RequestFails(t, e) ==
    /\ task[t].pc \in {"await_npi", "await_license", "await_name"}
    /\ task' = [task EXCEPT ![t] =
                   OnException(Received(task[t], Strategy(task[t].pc), e), e)]
    /\ UNCHANGED <<cache, state_license_api_endpoint, api_key, prev, handler, peer, aggregate>>

\* The caller takes the returned VerificationResult.
Return(t) ==
    /\ task[t].pc = "done"
    /\ task' = [task EXCEPT ![t] = IdleTask]
    /\ UNCHANGED <<cache, state_license_api_endpoint, api_key, prev, handler, peer, aggregate>>

\* The caller takes the returned VerificationResult and keeps it while it makes
\* its next call.
ReturnKept(t) ==
    /\ task[t].pc = "done"
    /\ prev' = task[t]
    /\ task' = [task EXCEPT ![t] = IdleTask]
    /\ UNCHANGED <<cache, state_license_api_endpoint, api_key, handler, peer, aggregate>>

\* Calls with any combination of identifiers, one after the other; the NPI
\* registry answers with at most one record.
Next ==
    \/ \E a \in Args : Call(a)
    \/ \E t \in Tasks, r \in NpiResponses : NpiResponds(t, r)
    \/ \E t \in Tasks, r \in LicenseResponses : LicenseResponds(t, r)
    \/ \E t \in Tasks, r \in NpiResponses : NameResponds(t, r)
    \/ \E t \in Tasks, e \in Failures : RequestFails(t, e)
    \/ \E t \in Tasks : Return(t)

Spec == Init /\ [][Next]_vars

\* Calls by name and state only; the registry answers with up to MaxResults
\* records.
NameArgsOnly ==
    {a \in Args : ~Truthy(a.npi_number) /\ ~Truthy(a.license_number) /\ NameAttempted(a)}

NextName ==
    \/ \E a \in NameArgsOnly : Call(a)
    \/ \E t \in Tasks, r \in NameResponses : NameResponds(t, r)
    \/ \E t \in Tasks, e \in Failures : RequestFails(t, e)
    \/ \E t \in Tasks : Return(t)

SpecName == Init /\ [][NextName]_vars

\* Calls by NPI number only, each result kept by the caller until the next.
NpiArgsOnly ==
    {a \in Args : NpiAttempted(a) /\ a.doctor_name = None /\ a.license_number = None
                  /\ a.state = None}

NextRepeat ==
    \/ \E a \in NpiArgsOnly : Call(a)
    \/ \E t \in Tasks, r \in NpiResponses : NpiResponds(t, r)
    \/ \E t \in Tasks, e \in Failures : RequestFails(t, e)
    \/ \E t \in Tasks : ReturnKept(t)

SpecRepeat == Init /\ [][NextRepeat]_vars

\* verify_doctor(**a) is entered on the second verifier and runs to its first
\* await; the callers of the two verifiers take turns.
PeerCall(a) ==
    /\ peer.task.pc = "idle"
    /\ \A u \in Tasks : task[u].pc = "idle"
    /\ peer' = [peer EXCEPT !.task = FromNpi(NewCall(a, peer.cache), peer.cache),
                            !.seen = cache]
    /\ UNCHANGED <<cache, state_license_api_endpoint, api_key, task, prev, handler, aggregate>>

\* The NPI registry answers the second verifier's lookup by number.
PeerNpiResponds(response) ==
    /\ peer.task.pc = "await_npi"
    /\ LET tr == Received(peer.task, "npi", response)
           out == NpiOnResponse(peer.cache, tr.args.field_name, tr.args.npi_number, response)
       IN IF out.kind = "raise"
          THEN peer' = [peer EXCEPT !.task = OnException(tr, out.exc)]
          ELSE peer' = [peer EXCEPT !.task = AfterNpi(tr, out.result), !.cache = out.cache]
    /\ UNCHANGED <<cache, state_license_api_endpoint, api_key, task, prev, handler, aggregate>>

\* The second verifier's awaited request raises.
PeerRequestFails(e) ==
    /\ peer.task.pc = "await_npi"
    /\ peer' = [peer EXCEPT !.task = OnException(Received(peer.task, "npi", e), e)]
    /\ UNCHANGED <<cache, state_license_api_endpoint, api_key, task, prev, handler, aggregate>>

\* The second verifier's caller takes the returned VerificationResult.
PeerReturn ==
    /\ peer.task.pc = "done"
    /\ peer' = [peer EXCEPT !.task = IdleTask]
    /\ UNCHANGED <<cache, state_license_api_endpoint, api_key, task, prev, handler, aggregate>>

\* The first verifier's caller starts a call while the second is not in one.
CallFirst(a) ==
    /\ peer.task.pc = "idle"
    /\ Call(a)

\* Two verifiers in one process (two VerifyHandler instances), called by NPI
\* number only.
NextProcess ==
    \/ \E a \in NpiArgsOnly : CallFirst(a)
    \/ \E t \in Tasks, r \in NpiResponses : NpiResponds(t, r)
    \/ \E t \in Tasks, e \in Failures : RequestFails(t, e)
    \/ \E t \in Tasks : Return(t)
    \/ \E a \in NpiArgsOnly : PeerCall(a)
    \/ \E r \in NpiResponses : PeerNpiResponds(r)
    \/ \E e \in Failures : PeerRequestFails(e)
    \/ PeerReturn

SpecProcess == Init /\ [][NextProcess]_vars

\* A verifier built with the defaults of __init__: no license registry.
InitDefault ==
    /\ cache = EmptyCache
    /\ state_license_api_endpoint = None
    /\ api_key = None
    /\ task = [t \in Tasks |-> IdleTask]
    /\ prev = IdleTask
    /\ handler = IdleHandler(TRUE, DefaultThreshold)
    /\ peer = IdlePeer
    /\ aggregate = NoAggregate

\* What the registry answers to lookups that are in progress together: one
\* of two active records, a deactivated record, no record, an error status.
ConcurrentResponses ==
    {r \in NpiResponses :
        \/ r = ServerError
        \/ /\ r.status_code = 200
           /\ "results" \in DOMAIN r.data
           /\ r.data.result_count = Len(r.data.results)
           /\ \A k \in 1..Len(r.data.results) : r.data.results[k].number \in {N1, N2}}

ReadTimeout == Exception("httpx.ReadTimeout", "The read operation timed out")

\* Calls by NPI number on one verifier that are in progress together: a call
\* is entered while others wait for the registry (asyncio tasks on one event
\* loop; each runs alone from one await to the next).
NextConcurrent ==
    \/ \E t \in Tasks, a \in NpiArgsOnly : Start(t, a)
    \/ \E t \in Tasks, r \in ConcurrentResponses : NpiResponds(t, r)
    \/ \E t \in Tasks : RequestFails(t, ReadTimeout)
    \/ \E t \in Tasks : Return(t)

SpecConcurrent == InitDefault /\ [][NextConcurrent]_vars

----------------------------------------------------------------------------
(* The names the lookup by name and state is run on. *)

MaxTokens == 3

\* The words names are made of: the title with and without its dot, given
\* and family names, one of them beginning with the letters of the title,
\* and an initial.
NameTokens ==
    { <<"D","r",".">>, <<"D","r">>, <<"A","l">>, <<"B","o">>, <<"D","r","e","w">>,
      <<"J",".">> }

\* " ".join(words)
RECURSIVE Join(_)
Join(words) ==
    IF words = <<>> THEN <<>>
    ELSE IF Len(words) = 1 THEN words[1]
    ELSE words[1] \o <<" ">> \o Join(Tail(words))

\* A name whose words a tab stands between.
AlTabBo == <<"A","l","\t","B","o">>

\* Names of up to MaxTokens words, the empty name among them, and the name
\* written with a tab.
Names == {Join(words) : words \in SeqsUpTo(NameTokens, MaxTokens)} \cup {AlTabBo}

\* verify_doctor(field_name, doctor_name=name, state="NY")
NamedArgs ==
    {[NoArgs EXCEPT !.field_name = FIELD, !.doctor_name = name, !.state = NY] :
        name \in Names}

NextParse ==
    \/ \E a \in NamedArgs : Call(a)
    \/ \E t \in Tasks, r \in ConcurrentResponses : NameResponds(t, r)
    \/ \E t \in Tasks : RequestFails(t, ReadTimeout)
    \/ \E t \in Tasks : Return(t)

SpecParse == InitDefault /\ [][NextParse]_vars

\* A verifier with the license registry configured, so that each of the
\* three lookups may send its request.
InitLive ==
    /\ cache = EmptyCache
    /\ state_license_api_endpoint = URL
    /\ api_key = KEY
    /\ task = [t \in Tasks |-> IdleTask]
    /\ prev = IdleTask
    /\ handler = IdleHandler(TRUE, DefaultThreshold)
    /\ peer = IdlePeer
    /\ aggregate = NoAggregate

LiveArgs == {a \in Args : a.npi_number \in {None, N1, N2} /\ a.doctor_name \in {None, DrAlBo}}

\* The license registry answers that the license is active or expired, or
\* with an error status.
LiveLicenseResponses ==
    {r \in LicenseResponses :
        \/ r = ServerError
        \/ /\ "status" \in DOMAIN r.data
           /\ r.data.status \in {<<"A","c","t","i","v","e">>, <<"e","x","p","i","r","e","d">>}}

\* The request call t waits for gets no answer within the client's timeout
\* (httpx.AsyncClient(timeout=self.timeout)) and raises.
TimesOut(t) == RequestFails(t, ReadTimeout)

\* Calls one after the other.
NextLive ==
    \/ \E a \in LiveArgs : Call(a)
    \/ \E t \in Tasks, r \in ConcurrentResponses : NpiResponds(t, r)
    \/ \E t \in Tasks, r \in LiveLicenseResponses : LicenseResponds(t, r)
    \/ \E t \in Tasks, r \in ConcurrentResponses : NameResponds(t, r)
    \/ \E t \in Tasks : TimesOut(t)
    \/ \E t \in Tasks : Return(t)

\* A request that is not answered times out in the end: no request stays
\* outstanding for ever.
SpecLive == InitLive /\ [][NextLive]_vars /\ \A t \in Tasks : WF_vars(TimesOut(t))

----------------------------------------------------------------------------
(* The structures the confidence aggregation is run on. *)

MaxLeaves == 3

ITEMS == <<"i","t","e","m","s">>
NESTED == <<"n","e","s","t","e","d">>
VALUE == <<"v","a","l","u","e">>
FieldKey(i) == <<"f", Digits[i + 1]>>
FieldValue(i) == <<"v", Digits[i + 1]>>

\* The confidences two evaluations give to one leaf: two that differ, two
\* that differ past the third decimal place, one null on either side, both
\* null, both zero, one zero.
LeafPairs ==
    { <<9000, 8500>>, <<1234, 1237>>, <<8500, Null>>, <<Null, 1234>>,
      <<Null, Null>>, <<0, 0>>, <<0, 8500>> }

Thresholds == {0, 8500}

\* The leaves one of the two evaluations (side 1 or 2) gives.
Leaves(pairs, side) == [i \in 1..Len(pairs) |-> Leaf(pairs[i][side], FieldValue(i))]

\* {"f1": leaf, "f2": leaf, ...}
Flat(ls) == Dict([i \in 1..Len(ls) |-> Item(FieldKey(i), ls[i])])

\* {"f1": leaf, "nested": {"f2": leaf, "nested": {...}}}
RECURSIVE Deep(_, _)
Deep(ls, i) ==
    IF i > Len(ls) THEN Dict(<<>>)
    ELSE Dict(<<Item(FieldKey(i), ls[i]), Item(NESTED, Deep(ls, i + 1))>>)

\* {"items": [leaf, leaf, ...]}
Listed(ls) == Dict(<<Item(ITEMS, List(ls))>>)

\* {"f1": {"value": ...}}: no confidence anywhere.
Unscored == Dict(<<Item(FieldKey(1), Dict(<<Item(VALUE, Scalar(FieldValue(1)))>>))>>)

Shapes == {"flat", "deep", "listed", "list"}

Structure(shape, ls) ==
    CASE shape = "flat" -> Flat(ls)
      [] shape = "deep" -> Deep(ls, 1)
      [] shape = "listed" -> Listed(ls)
      [] shape = "list" -> List(ls)

\* Two evaluations of one document, of the same shape, and a threshold.
Given ==
    {[a |-> Structure(shape, Leaves(pairs, 1)), b |-> Structure(shape, Leaves(pairs, 2)),
      threshold |-> threshold, op |-> "none", out |-> NoResult] :
        shape \in Shapes, pairs \in SeqsUpTo(LeafPairs, MaxLeaves), threshold \in Thresholds}
    \cup {[a |-> Unscored, b |-> Unscored, threshold |-> threshold, op |-> "none",
           out |-> NoResult] : threshold \in Thresholds}

InitConfidence ==
    /\ cache = EmptyCache
    /\ state_license_api_endpoint = None
    /\ api_key = None
    /\ task = [t \in Tasks |-> IdleTask]
    /\ prev = IdleTask
    /\ handler = IdleHandler(TRUE, DefaultThreshold)
    /\ peer = IdlePeer
    /\ aggregate \in Given

\* get_confidence_values(a)
GetValues ==
    /\ aggregate.op = "none"
    /\ aggregate' = [aggregate EXCEPT !.op = "get_confidence_values",
                                      !.out = GetConfidenceValues(aggregate.a)]
    /\ UNCHANGED <<cache, state_license_api_endpoint, api_key, task, prev, handler, peer>>

\* find_keys_with_min_confidence(a, threshold)
FindPaths ==
    /\ aggregate.op = "none"
    /\ aggregate' = [aggregate EXCEPT !.op = "find_keys_with_min_confidence",
                                      !.out = FindKeysWithMinConfidence(aggregate.a,
                                                                        aggregate.threshold)]
    /\ UNCHANGED <<cache, state_license_api_endpoint, api_key, task, prev, handler, peer>>

\* merge_confidence_values(a, b)
Merge ==
    /\ aggregate.op = "none"
    /\ aggregate' = [aggregate EXCEPT !.op = "merge_confidence_values",
                                      !.out = MergeConfidenceValues(aggregate.a, aggregate.b)]
    /\ UNCHANGED <<cache, state_license_api_endpoint, api_key, task, prev, handler, peer>>

NextConfidence == GetValues \/ FindPaths \/ Merge

SpecConfidence == InitConfidence /\ [][NextConfidence]_vars

----------------------------------------------------------------------------
(* The documents VerifyHandler is run on. *)

MaxItems == 2

F_NPI == <<"N","P","I">>
F_NPI2 == <<"n","p","i","2">>
F_LICENSE == <<"l","i","c","e","n","s","e">>
F_DOCTOR == <<"D","o","c","t","o","r">>
F_ID == <<"i","d">>

C69 == <<"6","9","%">>
C70 == <<"7","0","%">>
Unparsable == <<"x","%">>

ComparisonItem(Field, Extracted, Confidence) ==
    [Field |-> Field, Extracted |-> Extracted, Confidence |-> Confidence]

\* Items of two registry-number fields, with and without a value, just below
\* and at the threshold; one of them with no confidence and with one that is
\* no number; items of a license field, of a field that only matches a
\* pattern, and of a field that matches none.
Items ==
    {ComparisonItem(f, e, c) : f \in {F_NPI, F_NPI2}, e \in {None, N1}, c \in {C69, C70}}
    \cup {ComparisonItem(F_NPI, N1, c) : c \in {None, Unparsable}}
    \cup {ComparisonItem(f, N1, c) : f \in {F_LICENSE, F_DOCTOR}, c \in {C69, C70}}
    \cup {ComparisonItem(F_ID, N1, C70)}

Documents == SeqsUpTo(Items, MaxItems)

\* What the registry answers to the handler's lookups: the record of N1 as
\* active and as deactivated, no record, and an error status.
HandlerResponses ==
    {r \in NpiResponses :
        \/ r = ServerError
        \/ /\ r.status_code = 200
           /\ "results" \in DOMAIN r.data
           /\ r.data.result_count = Len(r.data.results)
           /\ \A k \in 1..Len(r.data.results) : r.data.results[k].number = N1}

InitHandler ==
    /\ cache = EmptyCache
    /\ state_license_api_endpoint = None
    /\ api_key = None
    /\ task = [t \in Tasks |-> IdleTask]
    /\ prev = IdleTask
    /\ handler \in {IdleHandler(enabled, DefaultThreshold) : enabled \in BOOLEAN}
    /\ peer = IdlePeer
    /\ aggregate = NoAggregate

\* execute(context) is called and runs to its first wait or to its return.
Execute(schema_id, items, fault) ==
    /\ handler.pc = "idle"
    /\ \A u \in Tasks : task[u].pc = "idle"
    /\ LET out == ExecuteFrom(handler, schema_id, items, cache, fault)
       IN /\ handler' = out.handler
          /\ task' = [task EXCEPT ![FirstTask] = out.call]
    /\ UNCHANGED <<cache, state_license_api_endpoint, api_key, prev, peer, aggregate>>

\* The verify_doctor that execute was waiting for has returned: execute goes
\* on to its next wait or to its return.
Resume(fault) ==
    /\ handler.pc = "await_verify"
    /\ task[FirstTask].pc = "done"
    /\ LET tr == task[FirstTask]
           h == [AfterVerify(handler, handler.i, tr) EXCEPT !.pc = "running"]
           out == VerifyDoctorFields(h, NextItem(h, handler.i, tr.ret), cache, fault)
       IN /\ handler' = out.handler
          /\ task' = [task EXCEPT ![FirstTask] = out.call]
    /\ UNCHANGED <<cache, state_license_api_endpoint, api_key, prev, peer, aggregate>>

\* The pipeline hands the handler a message of one of the schemas, whose
\* evaluate output is one of the documents; any one step of execute may raise.
Executes(schema_ids, documents) ==
    /\ handler.pc = "idle"
    /\ \E s \in schema_ids, d \in documents, f \in Faults : Execute(s, d, f)

\* One execute on a document of the schema the policy was written for.
NextHandler ==
    \/ Executes({TRS}, Documents)
    \/ \E f \in StepsAfterFields \cup {NoFault} : Resume(f)
    \/ \E t \in Tasks, r \in HandlerResponses : NpiResponds(t, r)
    \/ \E t \in Tasks, e \in Failures : RequestFails(t, e)

SpecHandler == InitHandler /\ [][NextHandler]_vars

\* One execute on a document of one item at most, of any schema.
NextSchemas ==
    \/ Executes(SchemaIds, SeqsUpTo(Items, 1))
    \/ \E f \in StepsAfterFields \cup {NoFault} : Resume(f)
    \/ \E t \in Tasks, r \in HandlerResponses : NpiResponds(t, r)
    \/ \E t \in Tasks, e \in Failures : RequestFails(t, e)

SpecSchemas == InitHandler /\ [][NextSchemas]_vars

\* Confidences as the evaluate step may leave them: percentages around the
\* thresholds below, with one and with two percent signs and with none, the
\* empty text, no confidence, a text that is no number, and the int 95 (a
\* value that is no str, held as a sequence that is no text); a percentage
\* with a decimal, one after a space, one written with an exponent, the text
\* of a float that is no number, and a percentage of more digits than a
\* double keeps, whose float is 95.0.
C95 == <<"9","5","%">>
C95Twice == <<"9","5","%","%">>
C95Bare == <<"9","5">>
C0 == <<"0","%">>
C100 == <<"1","0","0","%">>
NotText == <<"int","9","5">>
C955 == <<"9","5",".","5","%">>
CPadded == <<" ","9","5","%">>
CExp == <<"1","e","2","%">>
CNan == <<"n","a","n","%">>
CRounded == <<"9","4",".","9","9","9","9","9","9","9","9","9","9","9","9","9","9","9","%">>
Confidences ==
    {C95, C95Twice, C95Bare, C0, C100, <<>>, None, Unparsable, NotText,
     C955, CPadded, CExp, CNan, CRounded}

\* app_verify_confidence_threshold as configured, in hundredths.
ThresholdValues == {1, 95, 96}

ConfidenceItems ==
    {ComparisonItem(f, N1, c) : f \in {F_NPI, F_LICENSE, F_DOCTOR}, c \in Confidences}

InitThresholds ==
    /\ cache = EmptyCache
    /\ state_license_api_endpoint = None
    /\ api_key = None
    /\ task = [t \in Tasks |-> IdleTask]
    /\ prev = IdleTask
    /\ handler \in {IdleHandler(TRUE, th) : th \in ThresholdValues}
    /\ peer = IdlePeer
    /\ aggregate = NoAggregate

\* One execute on a document of one item, under any of the thresholds.
NextThresholds ==
    \/ Executes({TRS}, SeqsUpTo(ConfidenceItems, 1))
    \/ \E f \in StepsAfterFields \cup {NoFault} : Resume(f)
    \/ \E t \in Tasks, r \in HandlerResponses : NpiResponds(t, r)
    \/ \E t \in Tasks, e \in Failures : RequestFails(t, e)

SpecThresholds == InitThresholds /\ [][NextThresholds]_vars

\* Fields named after the registry number, the license, both, a doctor, and
\* neither; with and without a value; at the threshold, and the license and
\* the doubly named field below it as well.
F_BOTH == <<"l","i","c","e","n","s","e","_","n","p","i">>

RoutedItems ==
    {ComparisonItem(f, e, C70) : f \in {F_NPI, F_LICENSE, F_BOTH}, e \in {None, N1}}
    \cup {ComparisonItem(f, N1, C70) : f \in {F_DOCTOR, F_ID}}
    \cup {ComparisonItem(f, N1, C69) : f \in {F_LICENSE, F_BOTH}}

\* A handler whose verifier has the license registry configured (endpoint
\* and key) or not (the key alone).
InitRouting ==
    /\ cache = EmptyCache
    /\ state_license_api_endpoint \in {None, URL}
    /\ api_key = KEY
    /\ task = [t \in Tasks |-> IdleTask]
    /\ prev = IdleTask
    /\ handler = IdleHandler(TRUE, DefaultThreshold)
    /\ peer = IdlePeer
    /\ aggregate = NoAggregate

\* One execute on a document of these items; the registry by number is the
\* only one a request of which is answered.
NextRouting ==
    \/ Executes({TRS}, SeqsUpTo(RoutedItems, MaxItems))
    \/ \E f \in StepsAfterFields \cup {NoFault} : Resume(f)
    \/ \E t \in Tasks, r \in HandlerResponses : NpiResponds(t, r)
    \/ \E t \in Tasks, e \in Failures : RequestFails(t, e)

SpecRouting == InitRouting /\ [][NextRouting]_vars


----------------------------------------------------------------------------
(* What the properties below are stated with. *)

Rank(strategy) ==
    CASE strategy = "npi" -> 1 [] strategy = "license" -> 2 [] strategy = "name" -> 3

Done(t) == task[t].pc = "done"

Absent(x) == x \in {None, <<>>}

\* The response is an HTTP response (not a raised failure) with status 200.
Ok200(response) == "status_code" \in DOMAIN response /\ response.status_code = 200

\* The response to a lookup by number carries an active first record.
ActiveRecord(response) ==
    /\ Ok200(response)
    /\ "results" \in DOMAIN response.data
    /\ response.data.result_count > 0
    /\ response.data.results # <<>>
    /\ response.data.results[1].basic.status = <<"A">>

\* The results of the steps of call tr by the given strategy.
ResultsOf(tr, strategy) ==
    {tr.steps[i].result : i \in {k \in 1..Len(tr.steps) : tr.steps[k].strategy = strategy}}

\* a and b are the same text up to the case of their letters.
SameIgnoringCase(a, b) ==
    /\ Len(a) = Len(b)
    /\ \A i \in 1..Len(a) :
          \/ a[i] = b[i]
          \/ \E k \in 1..26 : {a[i], b[i]} = {UpperCase[k], LowerCase[k]}

----------------------------------------------------------------------------
(* C1: verify_doctor attempts the strategies in the order registry number,  *)
(* license + state, name + state, and returns as soon as one of them yields *)
(* VERIFIED: the steps and the requests of a call are in that order, a      *)
(* VERIFIED step is the last step of its call and its result is what the    *)
(* call returns, and no request of a later strategy is issued by that call. *)
C1_OrderAndShortCircuit ==
    \A t \in Tasks :
        LET tr == task[t] IN
        /\ \A i, j \in 1..Len(tr.steps) :
              i < j => Rank(tr.steps[i].strategy) < Rank(tr.steps[j].strategy)
        /\ \A i, j \in 1..Len(tr.reqs) :
              i < j => Rank(tr.reqs[i].lookup) < Rank(tr.reqs[j].lookup)
        /\ \A i \in 1..Len(tr.steps) :
              tr.steps[i].result.status = VERIFIED =>
                  /\ i = Len(tr.steps)
                  /\ tr.pc = "done"
                  /\ tr.ret = tr.steps[i].result
                  /\ \A k \in 1..Len(tr.reqs) :
                        Rank(tr.reqs[k].lookup) <= Rank(tr.steps[i].strategy)

\* A call given every identifier, with the license registry configured, that
\* the registry verified by number: it returned after that one request.
C1_Witness ==
    \E t \in Tasks :
        /\ Done(t)
        /\ Truthy(task[t].args.npi_number) /\ Truthy(task[t].args.license_number)
        /\ Truthy(task[t].args.state) /\ Truthy(task[t].args.doctor_name)
        /\ Truthy(state_license_api_endpoint) /\ Truthy(api_key)
        /\ Len(task[t].steps) = 1
        /\ task[t].steps[1].strategy = "npi"
        /\ task[t].ret.status = VERIFIED
        /\ Len(task[t].reqs) = 1

(* C2: for a registry number whose record is active, the first call on an   *)
(* empty cache issues one registry request and returns VERIFIED with        *)
(* cached = false; the call that follows it for the same number returns     *)
(* VERIFIED with cached = true, issues no request, and carries the first    *)
(* call's details but for the cached flag.                                  *)
FirstActiveLookup(tr) ==
    /\ tr.pc = "done"
    /\ Truthy(tr.args.npi_number)
    /\ tr.cache0 = EmptyCache
    /\ tr.resp.for = "npi"
    /\ ActiveRecord(tr.resp.response)

C2_MissThenHit ==
    \A t \in Tasks :
        LET tr == task[t] IN
        /\ FirstActiveLookup(tr) =>
              /\ Len(tr.reqs) = 1 /\ tr.reqs[1].lookup = "npi"
              /\ tr.ret.status = VERIFIED
              /\ tr.ret.details.cached = FALSE
        /\ (Done(t) /\ FirstActiveLookup(prev)
                /\ tr.args.npi_number = prev.args.npi_number) =>
              /\ tr.reqs = <<>>
              /\ tr.ret.status = VERIFIED
              /\ tr.ret.details.cached = TRUE
              /\ tr.ret.details = [prev.ret.details EXCEPT !.cached = TRUE]

\* The second of two calls for one number has returned from the cache.
C2_Witness ==
    \E t \in Tasks :
        /\ Done(t)
        /\ FirstActiveLookup(prev)
        /\ prev.ret.details.cached = FALSE
        /\ task[t].args.npi_number = prev.args.npi_number
        /\ task[t].ret.details.cached = TRUE
        /\ task[t].reqs = <<>>

(* C3: a call that supplies a registry number and no other identifier, and  *)
(* for which the registry answers with the single record of that number,    *)
(* not active, returns INVALID with the reason and the raw status code in   *)
(* its details.                                                             *)
C3_InactiveGivesInvalid ==
    \A t \in Tasks :
        LET tr == task[t] IN
        (/\ Done(t)
         /\ Truthy(tr.args.npi_number)
         /\ tr.args.doctor_name = None /\ tr.args.license_number = None
         /\ tr.args.state = None
         /\ tr.resp.for = "npi"
         /\ Ok200(tr.resp.response)
         /\ "results" \in DOMAIN tr.resp.response.data
         /\ tr.resp.response.data.result_count = 1
         /\ Len(tr.resp.response.data.results) = 1
         /\ tr.resp.response.data.results[1].basic.status # <<"A">>
         /\ tr.resp.response.data.results[1].number = tr.args.npi_number) =>
            /\ tr.ret.status = INVALID
            /\ tr.ret.details.reason = NotActiveReason
            /\ tr.ret.details.npi_status = tr.resp.response.data.results[1].basic.status

(* C4: for a call that supplies a license number and a state code (and no   *)
(* other identifier), when the license registry's endpoint or the API key   *)
(* is not configured the call returns SKIPPED with a message and sends no   *)
(* request to the license registry.                                         *)
C4_UnconfiguredGivesSkipped ==
    \A t \in Tasks :
        LET tr == task[t] IN
        (/\ Done(t)
         /\ Truthy(tr.args.license_number) /\ Truthy(tr.args.state)
         /\ tr.args.npi_number = None /\ tr.args.doctor_name = None
         /\ (Absent(state_license_api_endpoint) \/ Absent(api_key))) =>
            /\ tr.ret.status = SKIPPED
            /\ tr.ret.error_message # None
            /\ \A k \in 1..Len(tr.reqs) : tr.reqs[k].lookup # "license"

(* C5: on an HTTP 200 answer the license lookup maps the registry's status, *)
(* ignoring case: "active" to VERIFIED, "expired" to EXPIRED, "revoked" or  *)
(* "suspended" to REVOKED, every other or missing status to NOT_FOUND.      *)
ExpectedLicenseStatus(data) ==
    LET status == IF "status" \in DOMAIN data THEN data.status ELSE <<>> IN
    IF SameIgnoringCase(status, <<"a","c","t","i","v","e">>) THEN VERIFIED
    ELSE IF SameIgnoringCase(status, <<"e","x","p","i","r","e","d">>) THEN EXPIRED
    ELSE IF \/ SameIgnoringCase(status, <<"r","e","v","o","k","e","d">>)
            \/ SameIgnoringCase(status, <<"s","u","s","p","e","n","d","e","d">>)
         THEN REVOKED
    ELSE NOT_FOUND

C5_LicenseStatusMapping ==
    \A t \in Tasks :
        LET tr == task[t] IN
        (tr.resp.for = "license" /\ Ok200(tr.resp.response)) =>
            /\ ResultsOf(tr, "license") # {}
            /\ \A r \in ResultsOf(tr, "license") :
                  r.status = ExpectedLicenseStatus(tr.resp.response.data)

\* The license registry answered "SUSPENDED" and the lookup gave REVOKED.
C5_Witness ==
    \E t \in Tasks :
        /\ task[t].resp.for = "license"
        /\ Ok200(task[t].resp.response)
        /\ "status" \in DOMAIN task[t].resp.response.data
        /\ task[t].resp.response.data.status = <<"S","U","S","P","E","N","D","E","D">>
        /\ \E r \in ResultsOf(task[t], "license") : r.status = REVOKED

\* The records of the answer to call tr's lookup by name.
NameResults(tr) ==
    IF "results" \in DOMAIN tr.resp.response.data
    THEN tr.resp.response.data.results ELSE <<>>

\* The name the call sent to the registry.
SentName(tr) == tr.reqs[Len(tr.reqs)].params

\* E: the positions of the returned records whose first and last name are the
\* parsed ones, ignoring case; A: those of E that are active.
ExactMatches(tr) ==
    {i \in 1..Len(NameResults(tr)) :
        /\ SameIgnoringCase(NameResults(tr)[i].basic.first_name, SentName(tr).first_name)
        /\ SameIgnoringCase(NameResults(tr)[i].basic.last_name, SentName(tr).last_name)}

ActiveExactMatches(tr) ==
    {i \in ExactMatches(tr) : NameResults(tr)[i].basic.status = <<"A">>}

CandidateSet(tr) ==
    IF ActiveExactMatches(tr) # {} THEN ActiveExactMatches(tr) ELSE ExactMatches(tr)

\* The lookup by name of call tr got an HTTP 200 answer with a non-zero
\* result_count: the disambiguation ran on it.
Disambiguated(tr) ==
    /\ tr.resp.for = "name"
    /\ Ok200(tr.resp.response)
    /\ tr.resp.response.data.result_count # 0

\* As Disambiguated, the answer's result_count being the number of its records.
DisambiguatedWellFormed(tr) ==
    /\ Disambiguated(tr)
    /\ "results" \in DOMAIN tr.resp.response.data
    /\ tr.resp.response.data.result_count = Len(tr.resp.response.data.results)

(* C6: disambiguation of the lookup by name (HTTP 200, result_count not 0). *)
(* With E the returned records whose names equal the parsed ones ignoring   *)
(* case and A the active ones of E, the candidates are A if A is not empty  *)
(* and E otherwise.  One candidate: VERIFIED for that record.  Several:     *)
(* INVALID with match_count the number of candidates.  None: NOT_FOUND.     *)
C6_Disambiguation ==
    \A t \in Tasks :
        LET tr == task[t] IN
        Disambiguated(tr) =>
            /\ tr.pc = "done"
            /\ Cardinality(CandidateSet(tr)) = 1 =>
                  /\ tr.ret.status = VERIFIED
                  /\ \A i \in CandidateSet(tr) :
                        /\ tr.ret.details.npi = NameResults(tr)[i].number
                        /\ tr.ret.details.status = Active
                              <=> NameResults(tr)[i].basic.status = <<"A">>
            /\ Cardinality(CandidateSet(tr)) > 1 =>
                  /\ tr.ret.status = INVALID
                  /\ tr.ret.details.match_count = Cardinality(CandidateSet(tr))
            /\ Cardinality(CandidateSet(tr)) = 0 => tr.ret.status = NOT_FOUND

\* Two exact matches of which one is active: the active one was verified.
C6_Witness ==
    \E t \in Tasks :
        /\ Disambiguated(task[t])
        /\ Cardinality(ExactMatches(task[t])) = 2
        /\ Cardinality(ActiveExactMatches(task[t])) = 1
        /\ task[t].ret.status = VERIFIED

(* C7, as claimed: an answer with exactly two records that match the parsed *)
(* name gives INVALID with match_count = 2, whatever their status.          *)
C7_TwoMatchesAlwaysInvalid ==
    \A t \in Tasks :
        LET tr == task[t] IN
        (DisambiguatedWellFormed(tr) /\ Cardinality(ExactMatches(tr)) = 2) =>
            /\ tr.ret.status = INVALID
            /\ tr.ret.details.match_count = 2

(* C7, amended: an answer (HTTP 200, result_count not 0) with exactly two   *)
(* records that match the parsed name ignoring case gives INVALID with      *)
(* match_count = 2 when both are active or both are not; when exactly one   *)
(* of the two is active the call returns VERIFIED.                          *)
C7_TwoMatchesOfOneStatus ==
    \A t \in Tasks :
        LET tr == task[t] IN
        (Disambiguated(tr) /\ Cardinality(ExactMatches(tr)) = 2) =>
            /\ Cardinality(ActiveExactMatches(tr)) \in {0, 2} =>
                  /\ tr.ret.status = INVALID
                  /\ tr.ret.details.match_count = 2
            /\ Cardinality(ActiveExactMatches(tr)) = 1 => tr.ret.status = VERIFIED

\* Two active exact matches: INVALID, match_count 2.
C7_Witness ==
    \E t \in Tasks :
        /\ Disambiguated(task[t])
        /\ Cardinality(ExactMatches(task[t])) = 2
        /\ Cardinality(ActiveExactMatches(task[t])) = 2
        /\ task[t].ret.status = INVALID
        /\ task[t].ret.details.match_count = 2

(* C8: a name + state lookup whose answer holds exactly one active record   *)
(* that matches the parsed name ignoring case returns VERIFIED, and its     *)
(* details hold verification_method "name_and_jurisdiction".                *)
C8_MethodNameAndJurisdiction ==
    \A t \in Tasks :
        LET tr == task[t] IN
        (DisambiguatedWellFormed(tr) /\ Cardinality(ActiveExactMatches(tr)) = 1) =>
            /\ tr.ret.status = VERIFIED
            /\ tr.ret.details.verification_method = Msg("name_and_jurisdiction")

(* C9: a call with no usable identifier (no registry number, no license     *)
(* number + state with a configured endpoint, no name + state) returns      *)
(* NOT_FOUND "No verifiable identifiers provided ...", sends no request and *)
(* leaves the cache as it was.                                              *)
NoUsableIdentifier(a) ==
    /\ Absent(a.npi_number)
    /\ Absent(a.license_number) \/ Absent(a.state) \/ Absent(state_license_api_endpoint)
    /\ Absent(a.doctor_name) \/ Absent(a.state)

C9_NoIdentifiers ==
    \A t \in Tasks :
        LET tr == task[t] IN
        (tr.pc # "idle" /\ NoUsableIdentifier(tr.args)) =>
            /\ tr.pc = "done"
            /\ tr.ret.status = NOT_FOUND
            /\ tr.ret.error_message =
                  Msg("No verifiable identifiers provided (need NPI, or name+state, or license+state)")
            /\ tr.ret.details = NoDetails
            /\ tr.reqs = <<>>
            /\ cache = tr.cache0

\* A call with a name and a license number but no state.
C9_Witness ==
    \E t \in Tasks :
        /\ Done(t)
        /\ Truthy(task[t].args.doctor_name) /\ Truthy(task[t].args.license_number)
        /\ task[t].args.state = None /\ task[t].args.npi_number = None
        /\ task[t].ret.status = NOT_FOUND
        /\ task[t].reqs = <<>>

(* C10: a registry request, by any of the three strategies, that exceeds    *)
(* the configured timeout makes verify_doctor return ERROR with the         *)
(* error_message "API timeout".                                             *)
C10_TimeoutGivesApiTimeout ==
    \A t \in Tasks :
        LET tr == task[t] IN
        (/\ tr.resp.for \in {"npi", "license", "name"}
         /\ tr.resp.response \in Failures
         /\ IsTimeout(tr.resp.response)) =>
            /\ tr.pc = "done"
            /\ tr.ret.status = ERROR
            /\ tr.ret.error_message = Msg("API timeout")

(* C11: verify_doctor never lets a failure through to its caller.  Whenever *)
(* the awaited request of a strategy raises (a transport error, a timeout)  *)
(* or the registry's answer makes the lookup raise (result_count above 0    *)
(* with no results array, or with an empty one), the call returns ERROR     *)
(* with the failure's description as error_message and no details, and the  *)
(* cache is as it was when the call was made.                               *)
MissingResults(tr) ==
    /\ tr.resp.for = "npi"
    /\ Ok200(tr.resp.response)
    /\ "result_count" \in DOMAIN tr.resp.response.data
    /\ tr.resp.response.data.result_count > 0
    /\ "results" \notin DOMAIN tr.resp.response.data

EmptyResultsArray(tr) ==
    /\ tr.resp.for = "npi"
    /\ Ok200(tr.resp.response)
    /\ "result_count" \in DOMAIN tr.resp.response.data
    /\ tr.resp.response.data.result_count > 0
    /\ "results" \in DOMAIN tr.resp.response.data
    /\ tr.resp.response.data.results = <<>>

RequestRaised(tr) == tr.resp.for # "none" /\ tr.resp.response \in Failures

StrategyRaised(tr) == RequestRaised(tr) \/ MissingResults(tr) \/ EmptyResultsArray(tr)

FailureDescription(tr) ==
    IF MissingResults(tr) THEN Msg("'results'")
    ELSE IF EmptyResultsArray(tr) THEN Msg("list index out of range")
    ELSE IF tr.resp.response.type = "asyncio.TimeoutError" THEN Msg("API timeout")
    ELSE tr.resp.response.message

C11_FailuresBecomeError ==
    \A t \in Tasks :
        LET tr == task[t] IN
        StrategyRaised(tr) =>
            /\ tr.pc = "done"
            /\ tr.ret.status = ERROR
            /\ tr.ret.error_message = FailureDescription(tr)
            /\ tr.ret.error_message # None
            /\ tr.ret.details = NoDetails
            /\ cache = tr.cache0

\* A lookup by number, made with entries in the cache, whose answer announced
\* a record and carried no results array.
C11_Witness ==
    \E t \in Tasks :
        /\ MissingResults(task[t])
        /\ task[t].cache0 # EmptyCache
        /\ task[t].ret.status = ERROR
        /\ task[t].ret.error_message = Msg("'results'")

\* A lookup by name whose request failed to connect.
C11_WitnessTransport ==
    \E t \in Tasks :
        /\ task[t].resp.for = "name"
        /\ task[t].resp.response = Exception("httpx.ConnectError", "All connection attempts failed")
        /\ task[t].ret.status = ERROR

----------------------------------------------------------------------------
(* What the properties of VerifyHandler are stated with. *)

\* Item i of the document matches one of the configured patterns.
Matching(i) == MatchesPattern(FieldName(handler.items[i]), FieldPatterns)

\* The parsed confidence of item i is below / at the threshold.
Below(i) ==
    LowConfidence(ConfidenceValue(handler.items[i].Confidence), handler.confidence_threshold)
AtThreshold(i) ==
    LET confidence_value == ConfidenceValue(handler.items[i].Confidence) IN
    /\ LessOrEqual(confidence_value, handler.confidence_threshold)
    /\ ~Less(confidence_value, handler.confidence_threshold)

\* No later item of the document has the Field of item i: the outcome kept
\* under that Field is the one computed from item i.
LastOfField(i) ==
    \A j \in 1..Len(handler.items) : j > i => handler.items[j].Field # handler.items[i].Field

\* No other item of the document has the Field of item i.
OnlyOfField(i) ==
    \A j \in 1..Len(handler.items) : j # i => handler.items[j].Field # handler.items[i].Field

\* The verify_doctor calls execute has made for item i.
CallsFor(i) == {k \in 1..Len(handler.calls) : handler.calls[k].index = i}

\* Item i is a registry-number field.
NpiField(i) == Contains(FieldName(handler.items[i]), <<"n","p","i">>)

\* execute has returned the result of a completed verification.
Succeeded == handler.pc = "done" /\ handler.ret.result = "success"

\* A verify_doctor call is in progress.
Verifying == \E t \in Tasks : task[t].pc # "idle"

(* C12: in _verify_doctor_fields a pattern-matching field whose parsed      *)
(* confidence is below the threshold (0.70) gets a SKIPPED outcome, and no  *)
(* call to the verifier, hence no registry request, is ever made for it; a  *)
(* field whose confidence equals the threshold is not skipped for low       *)
(* confidence (a registry-number field at the threshold is handed to the    *)
(* verifier).                                                               *)
C12_BelowThresholdSkipped ==
    /\ \A k \in 1..Len(handler.calls) :
          Matching(handler.calls[k].index) /\ ~Below(handler.calls[k].index)
    /\ Verifying => handler.pc = "await_verify" /\ ~Below(handler.i)
    /\ Succeeded =>
          \A i \in 1..Len(handler.items) :
              /\ (Matching(i) /\ Below(i)) =>
                    /\ CallsFor(i) = {}
                    /\ handler.items[i].Field \in DOMAIN handler.results
                    /\ LastOfField(i) =>
                          /\ handler.results[handler.items[i].Field].status = SKIPPED
                          /\ handler.results[handler.items[i].Field].extracted_value
                                = handler.items[i].Extracted
              /\ (Matching(i) /\ AtThreshold(i)) =>
                    /\ NpiField(i) => CallsFor(i) # {}
                    /\ (OnlyOfField(i) /\ handler.items[i].Field \in DOMAIN handler.results) =>
                          handler.results[handler.items[i].Field].error_message
                              # BelowThresholdMessage

\* A document with a registry-number field at 69% and another at 70%: the
\* first was skipped with no call, the second was looked up in the registry.
C12_Witness ==
    /\ Succeeded
    /\ Len(handler.items) = 2
    /\ handler.items[1] = ComparisonItem(F_NPI, N1, C69)
    /\ handler.items[2] = ComparisonItem(F_NPI2, N1, C70)
    /\ handler.results[F_NPI].status = SKIPPED
    /\ CallsFor(1) = {}
    /\ \E k \in CallsFor(2) : Len(handler.calls[k].reqs) = 1

\* The outcomes that come from a verify_doctor call that sent a request to
\* the registry or was answered from the cache.
LookedUp ==
    {f \in DOMAIN handler.results :
        \E k \in 1..Len(handler.calls) :
            /\ handler.items[handler.calls[k].index].Field = f
            /\ handler.calls[k].result = handler.results[f]
            /\ \/ handler.calls[k].reqs # <<>>
               \/ /\ handler.calls[k].result.status = VERIFIED
                  /\ handler.calls[k].result.details.cached}

\* The outcomes that are SKIPPED for a confidence below the threshold.
SkippedForConfidence ==
    {f \in DOMAIN handler.results :
        /\ handler.results[f].status = SKIPPED
        /\ handler.results[f].error_message = BelowThresholdMessage}

(* C13: in the VerificationMetadata, total_api_calls is the number of       *)
(* outcomes that triggered a registry lookup, cache hits included, and the  *)
(* outcomes SKIPPED for a confidence below the threshold are not counted.   *)
C13_ApiCallsCountLookups ==
    Succeeded =>
        /\ handler.metadata.total_api_calls = Cardinality(LookedUp)
        /\ handler.metadata.total_api_calls
              <= Cardinality(DOMAIN handler.results) - Cardinality(SkippedForConfidence)

(* C14: the counts of the VerificationMetadata add up: verified + not_found *)
(* + invalid + expired + revoked + error + skipped = total_fields_checked = *)
(* the number of outcomes, and with no outcome every count is 0.            *)
CountsSum(m) ==
    m.verified_count + m.not_found_count + m.invalid_count + m.expired_count
        + m.revoked_count + m.error_count + m.skipped_count

C14_CountsAddUp ==
    handler.metadata # NoResult =>
        /\ CountsSum(handler.metadata) = handler.metadata.total_fields_checked
        /\ handler.metadata.total_fields_checked = Cardinality(DOMAIN handler.results)
        /\ \A n \in {handler.metadata.verified_count, handler.metadata.not_found_count,
                     handler.metadata.invalid_count, handler.metadata.expired_count,
                     handler.metadata.revoked_count, handler.metadata.error_count,
                     handler.metadata.skipped_count} : n >= 0
        /\ handler.results = EmptyResults =>
              \A n \in {handler.metadata.verified_count, handler.metadata.not_found_count,
                        handler.metadata.invalid_count, handler.metadata.expired_count,
                        handler.metadata.revoked_count, handler.metadata.error_count,
                        handler.metadata.skipped_count,
                        handler.metadata.total_fields_checked} : n = 0

\* A summary of two outcomes, one SKIPPED and one VERIFIED.
C14_Witness ==
    /\ Succeeded
    /\ Cardinality(DOMAIN handler.results) = 2
    /\ handler.metadata.skipped_count = 1
    /\ handler.metadata.verified_count = 1
    /\ handler.metadata.total_fields_checked = 2

\* A summary of a document none of whose items has an outcome.
C14_WitnessEmpty ==
    /\ Succeeded
    /\ handler.items # <<>>
    /\ handler.results = EmptyResults
    /\ handler.metadata.total_fields_checked = 0

(* C15: execute never raises to the pipeline.  When a step after the        *)
(* enabled check raises (download, deserialization, config load,            *)
(* verification, annotation, metadata, file registration, upload), execute  *)
(* returns the passthrough result "skipped"; it returns in every case one   *)
(* of the two results "success" and "skipped".                              *)
C15_FailuresGivePassthrough ==
    handler.pc = "done" =>
        /\ handler.ret.result \in {"success", "skipped"}
        /\ handler.fault # NoFault =>
              /\ handler.enabled
              /\ handler.ret = PassthroughResult
              /\ handler.ret.result = "skipped"

\* The upload raised after a field had been verified and the file registered.
C15_Witness ==
    /\ handler.pc = "done"
    /\ handler.fault = "upload"
    /\ \E f \in DOMAIN handler.results : handler.results[f].status = VERIFIED
    /\ handler.files # <<>>
    /\ handler.ret.result = "skipped"

\* The download raised.
C15_WitnessDownload ==
    /\ handler.pc = "done"
    /\ handler.fault = "download"
    /\ handler.ret.result = "skipped"

(* C16: with verification disabled, execute returns the passthrough result  *)
(* "skipped" and has done nothing else: no download of the evaluate output, *)
(* no verifier call and no registry request, no item annotated, no file     *)
(* registered, nothing uploaded.                                            *)
C16_DisabledDoesNothing ==
    ~handler.enabled =>
        /\ ~Verifying
        /\ cache = EmptyCache
        /\ handler.pc = "done" =>
              /\ handler.ret = PassthroughResult
              /\ ~handler.downloaded
              /\ handler.calls = <<>>
              /\ handler.results = EmptyResults
              /\ handler.annotated = <<>>
              /\ handler.metadata = NoResult
              /\ handler.files = <<>>
              /\ handler.uploaded = NoResult
              /\ handler.fault = NoFault

\* execute has returned on a disabled handler.
C16_Witness ==
    /\ ~handler.enabled
    /\ handler.pc = "done"
    /\ handler.schema_id = TRS
    /\ handler.ret.result = "skipped"

\* The schemas a verification policy has been written for: the hard-coded
\* policy is that of the TRS Retirement Allowance Verification Form.
SchemasWithPolicy == {TRS}

(* C17: for a schema for which no verification policy is configured,        *)
(* execute returns the passthrough result "skipped" and performs no field   *)
(* verification and no registry lookup.                                     *)
C17_NoPolicyGivesPassthrough ==
    (handler.pc # "idle" /\ handler.enabled /\ handler.schema_id \notin SchemasWithPolicy) =>
        /\ ~Verifying
        /\ handler.calls = <<>>
        /\ handler.results = EmptyResults
        /\ handler.pc = "done"
        /\ handler.ret.result = "skipped"

\* Item i is eligible for a registry lookup: it matches a pattern, is not
\* below the threshold and is a registry-number field.
Eligible(i) == Matching(i) /\ ~Below(i) /\ NpiField(i)

\* The registry request of call k of execute raised (a timeout or a
\* transport failure).
LookupFailed(k) == handler.calls[k].resp.response \in Failures

(* C18: a registry lookup that times out or fails for one field gives an    *)
(* ERROR outcome for that field only.  When no step of execute itself       *)
(* raises, every eligible field of the document has had its own             *)
(* verify_doctor call, whatever happened to the others, and keeps that      *)
(* call's outcome; execute returns "success" with a summary of all the      *)
(* outcomes in which error_count counts the failed fields.                  *)
C18_FailureStaysWithItsField ==
    /\ \A k \in 1..Len(handler.calls) :
          LookupFailed(k) => handler.calls[k].result.status = ERROR
    /\ (handler.pc = "done" /\ handler.enabled /\ handler.fault = NoFault) =>
          /\ handler.ret.result = "success"
          /\ \A i \in 1..Len(handler.items) :
                Eligible(i) =>
                    /\ Cardinality(CallsFor(i)) = 1
                    /\ LastOfField(i) =>
                          \A k \in CallsFor(i) :
                              handler.results[handler.items[i].Field] = handler.calls[k].result
          /\ handler.metadata.total_fields_checked = Cardinality(DOMAIN handler.results)
          /\ handler.metadata.error_count
                = Cardinality({f \in DOMAIN handler.results : handler.results[f].status = ERROR})
          /\ handler.ret.error_count = handler.metadata.error_count
          /\ handler.ret.verified_count
                = Cardinality({f \in DOMAIN handler.results : handler.results[f].status = VERIFIED})
          /\ handler.uploaded # NoResult
          /\ handler.uploaded.verification_metadata = handler.metadata

\* The lookup of the first of two fields timed out, the second field was
\* verified, and execute returned "success" counting one of each.
C18_Witness ==
    /\ Succeeded
    /\ Len(handler.items) = 2 /\ Len(handler.calls) = 2
    /\ handler.calls[1].resp.response = Exception("httpx.ReadTimeout", "The read operation timed out")
    /\ handler.results[handler.items[1].Field].status = ERROR
    /\ handler.results[handler.items[2].Field].status = VERIFIED
    /\ handler.ret.error_count = 1
    /\ handler.ret.verified_count = 1

\* The VerificationResults the verifier has produced in call tr: those of its
\* steps and the one it returned.
ProducedBy(tr) ==
    {tr.steps[i].result : i \in 1..Len(tr.steps)}
        \cup (IF tr.pc = "done" THEN {tr.ret} ELSE {})

\* The VerificationResults the orchestrator builds itself, for any item.
OrchestratorResults ==
    {SkippedLowConfidence(item) : item \in Items}
        \cup {SkippedLicenseField(item) : item \in Items}

(* C19: in every VerificationResult produced by the verifier or by the      *)
(* orchestrator, error_message is populated only when the status is ERROR;  *)
(* stated here of the results the verifier produces.                        *)
C19_MessageOnlyOnError ==
    \A t \in Tasks : \A r \in ProducedBy(task[t]) :
        r.error_message # None => r.status = ERROR

(* C20: in every VerificationResult produced by the verifier or by the      *)
(* orchestrator, details is populated only when the status is VERIFIED,     *)
(* EXPIRED, REVOKED or INVALID; NOT_FOUND, ERROR and SKIPPED outcomes have  *)
(* no details, and every VERIFIED outcome has details.                      *)
DetailsWhereClaimed(r) ==
    /\ r.details # NoDetails => r.status \in {VERIFIED, EXPIRED, REVOKED, INVALID}
    /\ r.status \in {NOT_FOUND, ERROR, SKIPPED} => r.details = NoDetails
    /\ r.status = VERIFIED => r.details # NoDetails

C20_DetailsOnlyWhereClaimed ==
    /\ \A t \in Tasks : \A r \in ProducedBy(task[t]) : DetailsWhereClaimed(r)
    /\ \A r \in OrchestratorResults : DetailsWhereClaimed(r)

\* A call whose license step found the license expired, with the registry's
\* answer as details, and which then returned NOT_FOUND without details.
C20_Witness ==
    \E t \in Tasks :
        /\ Done(t)
        /\ \E r \in ResultsOf(task[t], "license") :
              r.status = EXPIRED /\ r.details = task[t].resp.response.data
        /\ task[t].ret.status = NOT_FOUND
        /\ task[t].ret.details = NoDetails

\* A call answered from the cache: VERIFIED with the cached details.
C20_WitnessCached ==
    \E t \in Tasks :
        /\ Done(t)
        /\ task[t].reqs = <<>>
        /\ task[t].ret.status = VERIFIED
        /\ task[t].ret.details.cached

----------------------------------------------------------------------------
(* C21 *)

\* The second verifier's call is a lookup by number that has returned.
PeerLookedUp == peer.task.pc = "done" /\ NpiAttempted(peer.task.args)

\* The first verifier had verified and cached the number before the second
\* verifier's call was entered.
VerifiedByFirst == peer.task.args.npi_number \in DOMAIN peer.seen

\* C21: the cache is shared by the verifiers of a process: once a lookup by
\* number has returned VERIFIED through one verifier, a later lookup for the
\* same number through another verifier is a cache hit, VERIFIED with
\* details.cached = TRUE and no registry request.
C21_CacheSharedAcrossVerifiers ==
    (PeerLookedUp /\ VerifiedByFirst)
        => /\ peer.task.ret.status = VERIFIED
           /\ peer.task.ret.details.cached = TRUE
           /\ peer.task.reqs = <<>>

----------------------------------------------------------------------------
(* C22 *)

\* Call tr is a lookup by number that has returned and that found its number
\* in the cache when it was entered.
EnteredWithEntry(tr) ==
    /\ tr.pc = "done"
    /\ NpiAttempted(tr.args)
    /\ tr.args.npi_number \in DOMAIN tr.cache0

\* Call tr was served from the cache.
ServedFromCache(tr) ==
    /\ tr.reqs = <<>>
    /\ tr.resp.for = "none"
    /\ tr.ret.status = VERIFIED
    /\ tr.ret.details.cached = TRUE

\* C22: cache entries are never evicted: no step removes a number from the
\* cache, and every lookup by number entered while its number is in the cache
\* returns VERIFIED with cached = TRUE without a registry request, so that no
\* answer of the registry can change it.
C22_NeverEvicted ==
    [][/\ \A n \in DOMAIN cache : n \in DOMAIN cache'
       /\ \A t \in Tasks : EnteredWithEntry(task'[t]) => ServedFromCache(task'[t])]_vars

\* A lookup has been served from the cache after a later lookup wrote the
\* entry of another number: both entries are in the cache.
C22_Witness ==
    \E t, u \in Tasks :
        /\ EnteredWithEntry(task[t]) /\ ServedFromCache(task[t])
        /\ task[u].pc = "done"
        /\ task[u].args.npi_number # task[t].args.npi_number
        /\ task[u].ret.status = VERIFIED /\ Len(task[u].reqs) = 1
        /\ task[t].args.npi_number \in DOMAIN task[u].cache0
        /\ {task[t].args.npi_number, task[u].args.npi_number} \subseteq DOMAIN cache

----------------------------------------------------------------------------
(* C23 *)

\* Call tr missed the cache, asked the registry for its number and was
\* answered with an active record.
FreshActiveLookup(tr) ==
    /\ tr.pc = "done"
    /\ NpiAttempted(tr.args)
    /\ Len(tr.reqs) = 1
    /\ tr.resp.for = "npi"
    /\ ActiveRecord(tr.resp.response)

\* Calls t and u were in progress together for one number: each was entered
\* before the other's answer came, so both missed the cache.
Raced(t, u) ==
    /\ t # u
    /\ FreshActiveLookup(task[t]) /\ FreshActiveLookup(task[u])
    /\ task[t].args.npi_number = task[u].args.npi_number

\* In this step the registry's active answer reaches call t, which writes the
\* cache.
Writes(t) ==
    /\ task[t].pc = "await_npi"
    /\ FreshActiveLookup(task'[t])

\* C23: lookups of one active number that overlap on one verifier each
\* return VERIFIED; the cache then holds the number, with a whole payload
\* that is the one written by the lookup that wrote last: every write leaves
\* the cache entry equal to the writer's own details, and nothing but such a
\* write changes the cache.
C23_LastWriterWins ==
    [][/\ \A t \in Tasks :
            Writes(t) =>
                /\ task'[t].ret.status = VERIFIED
                /\ task'[t].args.npi_number \in DOMAIN cache'
                /\ cache'[task'[t].args.npi_number] = task'[t].ret.details
                /\ cache'[task'[t].args.npi_number] = NpiDetails(task'[t].resp.response.data.results[1])
                /\ \A n \in DOMAIN cache : n # task'[t].args.npi_number =>
                       n \in DOMAIN cache' /\ cache'[n] = cache[n]
       /\ cache' # cache => \E t \in Tasks : Writes(t)
       /\ \A t, u \in Tasks :
            Raced(t, u)' =>
                /\ task'[t].ret.status = VERIFIED /\ task'[u].ret.status = VERIFIED
                /\ task'[t].ret.details.cached = FALSE /\ task'[u].ret.details.cached = FALSE
                /\ task'[t].args.npi_number \in DOMAIN cache']_vars

\* Two lookups of one number both missed the cache and were answered with
\* different active records: the cache holds the payload of one of them and
\* not the other's.
C23_Witness ==
    \E t, u \in Tasks :
        /\ Raced(t, u)
        /\ task[t].cache0 = EmptyCache /\ task[u].cache0 = EmptyCache
        /\ task[t].ret.details # task[u].ret.details
        /\ cache[task[t].args.npi_number] = task[u].ret.details

----------------------------------------------------------------------------
(* C24 *)

\* Where the leaves of a structure are: each as the steps from the root, a
\* step being a key of a mapping or a position (from 0) of a list.
RECURSIVE LeafPaths(_)
LeafPaths(node) ==
    IF node.kind = "leaf" THEN {<<>>}
    ELSE IF node.kind = "dict"
    THEN UNION {{<<[key |-> node.items[k].key]>> \o p : p \in LeafPaths(node.items[k].node)} :
                    k \in 1..Len(node.items)}
    ELSE IF node.kind = "list"
    THEN UNION {{<<[index |-> k - 1]>> \o p : p \in LeafPaths(node.items[k])} :
                    k \in 1..Len(node.items)}
    ELSE {}

\* The node reached from `node` by the steps.
RECURSIVE NodeAt(_, _)
NodeAt(node, steps) ==
    IF steps = <<>> THEN node
    ELSE IF "key" \in DOMAIN steps[1]
    THEN NodeAt(node.items[CHOOSE k \in 1..Len(node.items) :
                               node.items[k].key = steps[1].key].node, Tail(steps))
    ELSE NodeAt(node.items[steps[1].index + 1], Tail(steps))

Merged == aggregate.op = "merge_confidence_values"

Smaller(x, y) == IF x < y THEN x ELSE y

\* x is y rounded to 3 decimal places: the multiple of 10 nearest to y.
RoundedTo3(x, y) == x % 10 = 0 /\ 2 * x >= 2 * y - 10 /\ 2 * x <= 2 * y + 10

\* What the claim gives for a leaf of which at least one confidence is not
\* null.
Expected(ca, cb) ==
    IF IsNull(ca) THEN cb ELSE IF IsNull(cb) THEN ca ELSE Smaller(ca, cb)

\* C24 as stated: merge_confidence_values(a, b) on two trees of one shape
\* sets each merged leaf's confidence to min(a, b) when both confidences are
\* present and not null, and to the present one when exactly one is null,
\* and keeps the leaf's value.
C24_MergedLeafIsMin ==
    Merged =>
        /\ LeafPaths(aggregate.out.merged) = LeafPaths(aggregate.a)
        /\ \A p \in LeafPaths(aggregate.a) :
              LET la == NodeAt(aggregate.a, p)
                  lb == NodeAt(aggregate.b, p)
                  lm == NodeAt(aggregate.out.merged, p)
              IN /\ lm.value = la.value
                 /\ ~(IsNull(la.confidence) /\ IsNull(lb.confidence)) =>
                        lm.confidence = Expected(la.confidence, lb.confidence)

\* C24, amended: the merged leaf's confidence is min(a, b), or the present
\* one of the two when exactly one is null, rounded to 3 decimal places;
\* the leaf's value is kept.
C24_MergedLeafIsRoundedMin ==
    Merged =>
        /\ LeafPaths(aggregate.out.merged) = LeafPaths(aggregate.a)
        /\ \A p \in LeafPaths(aggregate.a) :
              LET la == NodeAt(aggregate.a, p)
                  lb == NodeAt(aggregate.b, p)
                  lm == NodeAt(aggregate.out.merged, p)
              IN /\ lm.value = la.value
                 /\ ~(IsNull(la.confidence) /\ IsNull(lb.confidence)) =>
                        RoundedTo3(lm.confidence, Expected(la.confidence, lb.confidence))

\* A nested structure has been merged in which one leaf has two confidences
\* that differ past the third decimal place and another has a null on one
\* side.
C24_Witness ==
    /\ Merged
    /\ \E p, q \in LeafPaths(aggregate.a) :
          /\ Len(p) > 1
          /\ NodeAt(aggregate.a, p).confidence = 1234
          /\ NodeAt(aggregate.b, p).confidence = 1237
          /\ NodeAt(aggregate.out.merged, p).confidence = 1230
          /\ NodeAt(aggregate.a, q).confidence = 8500
          /\ IsNull(NodeAt(aggregate.b, q).confidence)
          /\ NodeAt(aggregate.out.merged, q).confidence = 8500

----------------------------------------------------------------------------
(* C25 *)

\* The merged leaves that count towards the mean: a confidence that is not
\* zero (nor absent); and the others.
Counted(merged) == {p \in LeafPaths(merged) : NodeAt(merged, p).confidence > 0}
NotCounted(merged) == {p \in LeafPaths(merged) : NodeAt(merged, p).confidence <= 0}

\* The sum of the confidences of the leaves at the paths ps.
RECURSIVE SumAt(_, _)
SumAt(merged, ps) ==
    IF ps = {} THEN 0
    ELSE LET p == CHOOSE q \in ps : TRUE
         IN NodeAt(merged, p).confidence + SumAt(merged, ps \ {p})

\* The path-string of the leaf at the steps: keys joined by dots, positions
\* in brackets.
RECURSIVE PathString(_)
PathString(steps) ==
    IF steps = <<>> THEN <<>>
    ELSE LET front == PathString(SubSeq(steps, 1, Len(steps) - 1))
             last == steps[Len(steps)]
         IN IF "key" \in DOMAIN last
            THEN (IF front = <<>> THEN last.key ELSE front \o <<".">> \o last.key)
            ELSE front \o <<"[", Digits[last.index + 1], "]">>

Range(s) == {s[i] : i \in 1..Len(s)}

\* The counts, the list of zero-confidence fields and the minimum of the
\* summary, as the claim gives them.
SummaryCounts(out) ==
    LET counted == Counted(out.merged)
        zero == NotCounted(out.merged)
    IN /\ out.total_evaluated_fields_count = Cardinality(counted)
       /\ Range(out.zero_confidence_fields) = {PathString(p) : p \in zero}
       /\ Len(out.zero_confidence_fields) = Cardinality(zero)
       /\ out.zero_confidence_fields_count = Len(out.zero_confidence_fields)
       /\ counted \cap zero = {}
       /\ counted \cup zero = LeafPaths(out.merged)
       /\ counted # {} =>
             /\ \E p \in counted :
                   NodeAt(out.merged, p).confidence = out.min_extracted_field_confidence
             /\ \A p \in counted :
                   NodeAt(out.merged, p).confidence >= out.min_extracted_field_confidence

\* C25 as stated: in the result of merge_confidence_values,
\* overall_confidence is the mean of the merged leaf confidences that are
\* not zero (0.0 when there is none), total_evaluated_fields_count is the
\* number of those leaves, zero_confidence_fields lists exactly the paths of
\* the merged leaves with zero or absent confidence,
\* zero_confidence_fields_count is its length,
\* min_extracted_field_confidence is the minimum over the counted leaves, and
\* every leaf is in exactly one of the two groups.
C25_SummaryOfMerge ==
    Merged =>
        LET out == aggregate.out
            counted == Counted(out.merged)
        IN /\ SummaryCounts(out)
           /\ counted = {} => out.overall_confidence = 0
           /\ counted # {} =>
                 out.overall_confidence * Cardinality(counted) = SumAt(out.merged, counted)

\* C25, amended: overall_confidence is that mean rounded to 3 decimal
\* places; the rest as stated.
C25_SummaryOfMergeRounded ==
    Merged =>
        LET out == aggregate.out
            counted == Counted(out.merged)
            n == Cardinality(counted)
        IN /\ SummaryCounts(out)
           /\ counted = {} => out.overall_confidence = 0
           /\ counted # {} =>
                 /\ out.overall_confidence % 10 = 0
                 /\ 2 * n * out.overall_confidence >= 2 * SumAt(out.merged, counted) - 10 * n
                 /\ 2 * n * out.overall_confidence <= 2 * SumAt(out.merged, counted) + 10 * n

\* A merge has given three counted leaves whose mean has more than three
\* decimal places; and a merge has given a zero-confidence leaf next to a
\* counted one.
C25_Witness ==
    /\ Merged
    /\ aggregate.out.total_evaluated_fields_count = 3
    /\ aggregate.out.overall_confidence = 3650
    /\ aggregate.out.min_extracted_field_confidence = 1230
    /\ aggregate.out.zero_confidence_fields_count = 0

C25_WitnessZero ==
    /\ Merged
    /\ aggregate.out.total_evaluated_fields_count = 1
    /\ aggregate.out.zero_confidence_fields = << <<"f","1">>, <<"n","e","s","t","e","d",".","n","e","s","t","e","d",".","f","3">> >>
    /\ aggregate.out.zero_confidence_fields_count = 2
    /\ aggregate.out.overall_confidence = 8500

----------------------------------------------------------------------------
(* C26 *)

GotValues == aggregate.op = "get_confidence_values"

\* The leaves of the structure whose confidence is v.
LeavesWith(data, v) == {p \in LeafPaths(data) : NodeAt(data, p).confidence = v}

\* How many entries of the sequence are v.
Occurrences(s, v) == Cardinality({i \in 1..Len(s) : s[i] = v})

\* C26: get_confidence_values(structure) returns exactly the confidences of
\* the leaves, at any depth of mappings and lists, whose confidence is
\* present, not null and greater than 0, one entry for each such leaf; an
\* empty structure or one without confidences gives an empty result.
C26_ValuesOfScoredLeaves ==
    GotValues =>
        LET data == aggregate.a
            out == aggregate.out
        IN /\ \A i \in 1..Len(out) : ~IsNull(out[i]) /\ out[i] > 0
           /\ \A v \in Range(out) \cup {NodeAt(data, p).confidence : p \in LeafPaths(data)} :
                 (~IsNull(v) /\ v > 0) => Occurrences(out, v) = Cardinality(LeavesWith(data, v))
           /\ Len(out) = Cardinality({p \in LeafPaths(data) :
                                        LET c == NodeAt(data, p).confidence
                                        IN ~IsNull(c) /\ c > 0})
           /\ LeafPaths(data) = {} => out = <<>>

\* A nested structure with a null leaf, then two leaves of one confidence
\* below it, gave that confidence twice.
C26_Witness ==
    /\ GotValues
    /\ aggregate.out = <<8500, 8500>>
    /\ \E p, q, r \in LeafPaths(aggregate.a) :
          /\ IsNull(NodeAt(aggregate.a, p).confidence)
          /\ Len(q) = 2 /\ Len(r) = 3
          /\ NodeAt(aggregate.a, q).confidence = 8500
          /\ NodeAt(aggregate.a, r).confidence = 8500

\* The structures without a confidence gave nothing.
C26_WitnessEmpty ==
    /\ GotValues
    /\ aggregate.a = Unscored
    /\ aggregate.out = <<>>

----------------------------------------------------------------------------
(* C27 *)

FoundPaths == aggregate.op = "find_keys_with_min_confidence"

\* The path-strings of the leaves whose confidence is a number that is at
\* most the threshold; and of those whose confidence is null.
PathsWithin(data, threshold) ==
    {PathString(p) : p \in {q \in LeafPaths(data) :
                               LET c == NodeAt(data, q).confidence
                               IN ~IsNull(c) /\ c <= threshold}}

NullPaths(data) ==
    {PathString(p) : p \in {q \in LeafPaths(data) : IsNull(NodeAt(data, q).confidence)}}

\* C27: find_keys_with_min_confidence(structure, threshold) returns exactly
\* the paths of the leaves whose confidence is <= threshold, each built from
\* the root with dots between the keys of mappings and [i] for the positions
\* of lists; with threshold 0 these are exactly the paths of the leaves of
\* zero or null confidence.
C27_PathsAtMostThreshold ==
    FoundPaths =>
        LET data == aggregate.a
            out == aggregate.out
        IN /\ Len(out) = Cardinality(Range(out))
           /\ PathsWithin(data, aggregate.threshold) \subseteq Range(out)
           /\ Range(out) \subseteq PathsWithin(data, aggregate.threshold) \cup NullPaths(data)
           /\ aggregate.threshold = 0 =>
                 Range(out) = PathsWithin(data, 0) \cup NullPaths(data)

\* A leaf at the threshold, below a nested mapping, is the one path found;
\* and one in a list.
C27_Witness ==
    /\ FoundPaths
    /\ aggregate.threshold = 8500
    /\ aggregate.out = << <<"n","e","s","t","e","d",".","f","2">> >>
    /\ Cardinality(LeafPaths(aggregate.a)) = 2

C27_WitnessList ==
    /\ FoundPaths
    /\ aggregate.threshold = 0
    /\ aggregate.out = << <<"i","t","e","m","s","[","0","]">>, <<"i","t","e","m","s","[","2","]">> >>
    /\ IsNull(NodeAt(aggregate.a, <<[key |-> ITEMS], [index |-> 0]>>).confidence)
    /\ NodeAt(aggregate.a, <<[key |-> ITEMS], [index |-> 2]>>).confidence = 0

----------------------------------------------------------------------------
(* C28 *)

\* Call tr is a lookup by number that missed the cache and was answered with
\* status 200.
MissAnswered200(tr) ==
    /\ tr.pc = "done"
    /\ NpiAttempted(tr.args)
    /\ tr.args.npi_number \notin DOMAIN tr.cache0
    /\ Len(tr.reqs) = 1
    /\ tr.resp.for = "npi"
    /\ Ok200(tr.resp.response)

\* The registry reports no match.
ZeroMatches(response) ==
    "result_count" \notin DOMAIN response.data \/ response.data.result_count = 0

\* The registry reports matches and gives their records.
HasFirstRecord(response) ==
    /\ ~ZeroMatches(response)
    /\ "results" \in DOMAIN response.data
    /\ response.data.results # <<>>

\* The details are those of the record, normalized.
NormalizedFrom(details, record) ==
    /\ details.npi = record.number
    /\ details.name = Strip(record.basic.first_name \o <<" ">> \o record.basic.last_name)
    /\ details.credential = record.basic.credential
    /\ details.status = Active
    /\ details.cached = FALSE
    /\ IF record.taxonomies # <<>>
       THEN details.specialty = record.taxonomies[1].desc
       ELSE "specialty" \notin DOMAIN details

\* The cache is as it was when call tr was entered, but for the entry of the
\* number of tr, which is `details`.
WrittenUnderNumber(tr, details) ==
    /\ DOMAIN cache = DOMAIN tr.cache0 \cup {tr.args.npi_number}
    /\ cache[tr.args.npi_number] = details
    /\ \A n \in DOMAIN tr.cache0 : cache[n] = tr.cache0[n]

\* C28: _verify_by_npi on a cache miss answered with HTTP 200 returns
\* NOT_FOUND when the registry reports zero matches, INVALID when the first
\* record's status is not active, and VERIFIED with normalized details,
\* cached false, when it is active; it writes the cache, under the requested
\* number, in the active case and in no other.
C28_NpiStepOutcomes ==
    \A t \in Tasks :
        LET tr == task[t]
            response == tr.resp.response
        IN MissAnswered200(tr) =>
              /\ ZeroMatches(response) =>
                    /\ \A r \in ResultsOf(tr, "npi") : r.status = NOT_FOUND
                    /\ ResultsOf(tr, "npi") # {}
                    /\ cache = tr.cache0
              /\ (HasFirstRecord(response) /\ ~ActiveRecord(response)) =>
                    /\ \A r \in ResultsOf(tr, "npi") : r.status = INVALID
                    /\ ResultsOf(tr, "npi") # {}
                    /\ cache = tr.cache0
              /\ ActiveRecord(response) =>
                    /\ \A r \in ResultsOf(tr, "npi") :
                          /\ r.status = VERIFIED
                          /\ NormalizedFrom(r.details, response.data.results[1])
                          /\ WrittenUnderNumber(tr, r.details)
                    /\ ResultsOf(tr, "npi") # {}

\* A miss was answered with an active record while the cache held another
\* number: the cache now holds both.
C28_Witness ==
    \E t \in Tasks :
        /\ MissAnswered200(task[t])
        /\ ActiveRecord(task[t].resp.response)
        /\ task[t].cache0 # EmptyCache
        /\ Cardinality(DOMAIN cache) = 2
        /\ "specialty" \in DOMAIN cache[task[t].args.npi_number]

\* A miss was answered with a deactivated record, and one with no match,
\* while the cache held an entry: nothing was written.
C28_WitnessInvalid ==
    \E t \in Tasks :
        /\ MissAnswered200(task[t])
        /\ HasFirstRecord(task[t].resp.response) /\ ~ActiveRecord(task[t].resp.response)
        /\ task[t].cache0 # EmptyCache
        /\ cache = task[t].cache0

C28_WitnessNotFound ==
    \E t \in Tasks :
        /\ MissAnswered200(task[t])
        /\ ZeroMatches(task[t].resp.response)
        /\ task[t].cache0 # EmptyCache
        /\ cache = task[t].cache0

----------------------------------------------------------------------------
(* C29 *)

\* The courtesy title, as it is written with and without its dot.
Titles == { <<"D","r",".">>, <<"D","r">> }

NotTitle(word) == word \notin Titles

\* The whitespace-separated tokens of the name that are not the title.
NameTokensOf(doctor_name) == SelectSeq(Split(doctor_name), NotTitle)

\* Call tr went to the lookup by name and state and has returned.
NameStepDone(tr) ==
    /\ tr.pc = "done"
    /\ NameAttempted(tr.args)
    /\ ~NpiAttempted(tr.args)
    /\ ~LicenseAttempted(tr.args)

NameRequests(tr) == {i \in 1..Len(tr.reqs) : tr.reqs[i].lookup = "name"}

\* C29: a holder name with fewer than two tokens once the courtesy title is
\* stripped makes the name + state step return ERROR with the message
\* "Unable to parse first and last name", and no registry request is sent
\* for it.
C29_ShortNameIsParseError ==
    \A t \in Tasks :
        LET tr == task[t] IN
        (NameStepDone(tr) /\ Len(NameTokensOf(tr.args.doctor_name)) < 2) =>
            /\ ResultsOf(tr, "name") =
                   {VerificationResult(tr.args.field_name, tr.args.doctor_name, ERROR,
                                       NoDetails, Msg("Unable to parse first and last name"))}
            /\ tr.ret.status = ERROR
            /\ tr.ret.error_message = Msg("Unable to parse first and last name")
            /\ NameRequests(tr) = {}
            /\ tr.resp.for = "none"

\* The name "Dr. Al", two words of which one is the title, has given the
\* parse error without a request.
C29_Witness ==
    \E t \in Tasks :
        /\ NameStepDone(task[t])
        /\ task[t].args.doctor_name = <<"D","r","."," ","A","l">>
        /\ task[t].ret.status = ERROR
        /\ task[t].ret.error_message = ParseMessage
        /\ task[t].reqs = <<>>

----------------------------------------------------------------------------
(* C30 *)

\* Call tr has sent its request to the lookup by name.
NameRequested(tr) == tr.pc \in {"await_name", "done"} /\ NameRequests(tr) # {}

\* The parameters of the request call tr sent to the lookup by name.
SentParams(tr) == tr.reqs[CHOOSE i \in NameRequests(tr) : TRUE].params

\* C30: for every holder name, the given name sent to the registry is the
\* first whitespace-separated token of the name once the courtesy title is
\* removed, and the family name is the last one, the tokens between them
\* being ignored; removing the title alters no character of the name's own
\* tokens, so that a name without a title is queried with its own first and
\* last tokens.
C30_FirstAndLastTokensSent ==
    \A t \in Tasks :
        LET tr == task[t]
            tokens == NameTokensOf(tr.args.doctor_name)
        IN /\ NameRequested(tr) =>
                /\ Len(tokens) >= 2
                /\ SentParams(tr).first_name = tokens[1]
                /\ SentParams(tr).last_name = tokens[Len(tokens)]
           /\ (tr.pc \in {"await_name", "done"} /\ NameAttempted(tr.args)
                  /\ Len(tokens) >= 2) => NameRequested(tr)

----------------------------------------------------------------------------
(* C31 *)

\* The response call tr received last is an HTTP response whose status is
\* not 200.
Non200(tr) ==
    /\ tr.resp.for # "none"
    /\ "status_code" \in DOMAIN tr.resp.response
    /\ tr.resp.response.status_code # 200

\* C31: a registry failure reported as a non-200 HTTP response gives the
\* ERROR outcome for that lookup, whichever of the three lookups (registry
\* number, license, name + state) received it; the lookup's outcome is never
\* NOT_FOUND.
C31_Non200GivesError ==
    \A t \in Tasks :
        LET tr == task[t] IN
        Non200(tr) =>
            /\ ResultsOf(tr, tr.resp.for) # {}
            /\ \A r \in ResultsOf(tr, tr.resp.for) : r.status = ERROR

----------------------------------------------------------------------------
(* C32 *)

\* The decimal text of a number below 1000.
Decimal(n) ==
    IF n < 10 THEN <<Digits[n + 1]>>
    ELSE IF n < 100 THEN <<Digits[(n \div 10) + 1], Digits[(n % 10) + 1]>>
    ELSE <<Digits[(n \div 100) + 1], Digits[((n \div 10) % 10) + 1], Digits[(n % 10) + 1]>>

\* n percent signs.
Percents(n) == [k \in 1..n |-> "%"]

\* The text is the decimal text of a whole number of percent, or of one with
\* a tenth, followed by percent signs.
WholePercent(Confidence, n) == \E k \in 0..2 : Confidence = Decimal(n) \o Percents(k)
TenthPercent(Confidence, n, d) ==
    /\ \E i \in 1..Len(Confidence) : Confidence[i] = "."
    /\ \E k \in 0..2 : Confidence = Decimal(n) \o <<".">> \o Decimal(d) \o Percents(k)

\* What float() reads beyond these: a number after whitespace, a number
\* written with an exponent ("1e2" is 100), nan, and a number of more digits
\* than a double keeps ("94.999999999999999" is 95.0, the double nearest).
OtherNumbers == {CPadded, CExp, CNan, CRounded}

\* The confidence, in tenths of a hundredth, that the text is the percentage
\* of: the number before its trailing percent signs; 0 for anything else.
PercentageOf(Confidence) ==
    IF \E n \in 0..100 : WholePercent(Confidence, n)
    THEN 10 * (CHOOSE n \in 0..100 : WholePercent(Confidence, n))
    ELSE IF \E n \in 0..100, d \in 0..9 : TenthPercent(Confidence, n, d)
    THEN CHOOSE m \in 0..1009 : TenthPercent(Confidence, m \div 10, m % 10)
    ELSE IF Confidence \in {CPadded, CRounded} THEN 950
    ELSE IF Confidence = CExp THEN 1000
    ELSE 0

\* The confidence of the text is not below the threshold: its percentage is
\* the threshold or more, or it is nan, which is below nothing.
NotBelowThreshold(Confidence) ==
    \/ Confidence = CNan
    \/ PercentageOf(Confidence) >= 10 * handler.confidence_threshold

\* The confidence is absent, empty, not a text, or a text that is no number.
NoConfidence(Confidence) ==
    \/ Confidence \in {None, <<>>, NotText}
    \/ /\ \A n \in 0..100 : ~WholePercent(Confidence, n)
       /\ \A n \in 0..100, d \in 0..9 : ~TenthPercent(Confidence, n, d)
       /\ Confidence \notin OtherNumbers

\* The outcome kept for item i is the one of a confidence below the threshold.
SkippedBelow(i) ==
    /\ handler.items[i].Field \in DOMAIN handler.results
    /\ handler.results[handler.items[i].Field].status = SKIPPED
    /\ handler.results[handler.items[i].Field].error_message = BelowThresholdMessage

\* C32: the confidence of a field is its percentage text with the trailing
\* percent signs removed, divided by 100 ("95%" is 0.95 and "95.5%" is 0.955:
\* skipped under the threshold 0.96 and not under 0.95); an absent, empty,
\* non-text or unparseable confidence is 0.0 and raises nothing, so that such
\* a field is SKIPPED under every positive threshold, with no call to the
\* verifier.
C32_ConfidenceParsing ==
    /\ \A k \in 1..Len(handler.calls) :
          NotBelowThreshold(handler.items[handler.calls[k].index].Confidence)
    /\ Verifying => NotBelowThreshold(handler.items[handler.i].Confidence)
    /\ (handler.pc = "done" /\ handler.enabled /\ handler.fault = NoFault) => Succeeded
    /\ Succeeded =>
          \A i \in 1..Len(handler.items) :
              Matching(i) =>
                  /\ SkippedBelow(i) <=> ~NotBelowThreshold(handler.items[i].Confidence)
                  /\ NoConfidence(handler.items[i].Confidence) =>
                        /\ PercentageOf(handler.items[i].Confidence) = 0
                        /\ SkippedBelow(i)
                        /\ CallsFor(i) = {}

\* A registry-number field whose confidence is the int 95 was skipped under
\* the threshold 0.01, with no call to the verifier.
C32_Witness ==
    /\ Succeeded
    /\ handler.confidence_threshold = 1
    /\ handler.items = <<ComparisonItem(F_NPI, N1, NotText)>>
    /\ SkippedBelow(1)
    /\ handler.calls = <<>>

\* A registry-number field at "95%" was looked up under the threshold 0.95.
C32_WitnessParsed ==
    /\ Succeeded
    /\ handler.confidence_threshold = 95
    /\ handler.items = <<ComparisonItem(F_NPI, N1, C95)>>
    /\ CallsFor(1) # {}
    /\ ~SkippedBelow(1)

\* The same field at "95%" was skipped under the threshold 0.96.
C32_WitnessJustBelow ==
    /\ Succeeded
    /\ handler.confidence_threshold = 96
    /\ handler.items = <<ComparisonItem(F_NPI, N1, C95)>>
    /\ SkippedBelow(1)

\* A registry-number field at "95.5%" was looked up under the threshold 0.95.
C32_WitnessDecimal ==
    /\ Succeeded
    /\ handler.confidence_threshold = 95
    /\ handler.items = <<ComparisonItem(F_NPI, N1, C955)>>
    /\ CallsFor(1) # {}
    /\ ~SkippedBelow(1)

\* The same field at "95.5%" was skipped under the threshold 0.96.
C32_WitnessDecimalBelow ==
    /\ Succeeded
    /\ handler.confidence_threshold = 96
    /\ handler.items = <<ComparisonItem(F_NPI, N1, C955)>>
    /\ SkippedBelow(1)

\* A registry-number field at " 95%", at "1e2%", at "nan%" and at
\* "94.999999999999999%" was looked up under the threshold 0.95.
C32_WitnessOtherNumbers ==
    /\ Succeeded
    /\ handler.confidence_threshold = 95
    /\ \E c \in OtherNumbers : handler.items = <<ComparisonItem(F_NPI, N1, c)>>
    /\ CallsFor(1) # {}
    /\ ~SkippedBelow(1)

\* A registry-number field at "94.999999999999999%", whose float is 95.0, was
\* looked up under the threshold 0.95.
C32_WitnessRounded ==
    /\ Succeeded
    /\ handler.confidence_threshold = 95
    /\ handler.items = <<ComparisonItem(F_NPI, N1, CRounded)>>
    /\ CallsFor(1) # {}
    /\ ~SkippedBelow(1)

\* The same field at "94.999999999999999%" was skipped under the threshold
\* 0.96.
C32_WitnessRoundedBelow ==
    /\ Succeeded
    /\ handler.confidence_threshold = 96
    /\ handler.items = <<ComparisonItem(F_NPI, N1, CRounded)>>
    /\ SkippedBelow(1)

----------------------------------------------------------------------------
(* C33 *)

\* Item i is a license field.
LicenseField(i) == Contains(FieldName(handler.items[i]), <<"l","i","c","e","n","s","e">>)

\* verify_doctor was handed the field's name and its registry number only.
NumberOnly(a, item) ==
    /\ a.field_name = item.Field
    /\ a.npi_number = IF Truthy(item.Extracted) THEN item.Extracted ELSE None
    /\ a.doctor_name = None
    /\ a.license_number = None
    /\ a.state = None

\* Every request in reqs goes to the registry by number.
OnlyNpiRequests(reqs) == \A k \in 1..Len(reqs) : reqs[k].lookup = "npi"

\* C33: for a pattern-matching field at or above the threshold,
\* _verify_doctor_fields routes by name.  A name containing "npi" triggers
\* verify_doctor with only the registry number, also when the name contains
\* "license" as well, so that only the registry-number step runs; a name
\* containing "license" and not "npi" gets SKIPPED with the message that a
\* state code is required, and no lookup.  No request to the license
\* registry or to the lookup by name and state is ever caused.
C33_RoutingByName ==
    /\ \A t \in Tasks :
          /\ task[t].pc \notin {"await_license", "await_name"}
          /\ OnlyNpiRequests(task[t].reqs)
          /\ \A k \in 1..Len(task[t].steps) : task[t].steps[k].strategy = "npi"
          /\ task[t].pc # "idle" =>
                /\ handler.pc = "await_verify"
                /\ NumberOnly(task[t].args, handler.items[handler.i])
                /\ Matching(handler.i) /\ ~Below(handler.i) /\ NpiField(handler.i)
    /\ \A k \in 1..Len(handler.calls) :
          /\ NpiField(handler.calls[k].index)
          /\ Matching(handler.calls[k].index) /\ ~Below(handler.calls[k].index)
          /\ OnlyNpiRequests(handler.calls[k].reqs)
    /\ Succeeded =>
          \A i \in 1..Len(handler.items) :
              (Matching(i) /\ ~Below(i)) =>
                  /\ NpiField(i) =>
                        /\ Cardinality(CallsFor(i)) = 1
                        /\ LastOfField(i) =>
                              \E k \in CallsFor(i) :
                                  handler.results[handler.items[i].Field]
                                      = handler.calls[k].result
                  /\ (LicenseField(i) /\ ~NpiField(i)) =>
                        /\ CallsFor(i) = {}
                        /\ handler.items[i].Field \in DOMAIN handler.results
                        /\ LastOfField(i) =>
                              /\ handler.results[handler.items[i].Field].status = SKIPPED
                              /\ handler.results[handler.items[i].Field].error_message
                                    = NeedsStateMessage

\* With the license registry configured, a document of a license field and
\* of a field named after both: the first was skipped for want of a state
\* code, the second was looked up by number with one request.
C33_Witness ==
    /\ Succeeded
    /\ Truthy(state_license_api_endpoint) /\ Truthy(api_key)
    /\ Len(handler.items) = 2
    /\ handler.items[1] = ComparisonItem(F_LICENSE, N1, C70)
    /\ handler.items[2] = ComparisonItem(F_BOTH, N1, C70)
    /\ handler.results[F_LICENSE].error_message = NeedsStateMessage
    /\ CallsFor(1) = {}
    /\ \E k \in CallsFor(2) :
          /\ Len(handler.calls[k].reqs) = 1
          /\ handler.calls[k].result.status = NOT_FOUND

----------------------------------------------------------------------------
(* C34 *)

\* Item i has an outcome: _verify_doctor_fields computed one from it.
HasOutcome(i) == Matching(i) /\ (Below(i) \/ NpiField(i) \/ LicenseField(i))

\* The outcome _verify_doctor_fields computed from item i.
OutcomeOf(i) ==
    IF Below(i) THEN SkippedLowConfidence(handler.items[i])
    ELSE IF NpiField(i) THEN handler.calls[CHOOSE k \in CallsFor(i) : TRUE].result
    ELSE SkippedLicenseField(handler.items[i])

\* C34: _update_comparison_data writes the status and the details of an
\* outcome (with its timestamp and elapsed time) onto exactly the comparison
\* items whose Field has an outcome, each item receiving the outcome that was
\* computed from that same item; every other item, and Field, Extracted and
\* Confidence of the annotated items, are as they were.
C34_EachItemItsOwnOutcome ==
    Succeeded =>
        /\ Len(handler.annotated) = Len(handler.items)
        /\ \A i \in 1..Len(handler.items) :
              LET was == handler.items[i]
                  is == handler.annotated[i]
              IN /\ is.Field = was.Field
                 /\ is.Extracted = was.Extracted
                 /\ is.Confidence = was.Confidence
                 /\ "VerificationStatus" \in DOMAIN is <=> was.Field \in DOMAIN handler.results
                 /\ HasOutcome(i) =>
                       /\ "VerificationStatus" \in DOMAIN is
                       /\ is.VerificationStatus = OutcomeOf(i).status
                       /\ is.VerificationDetails = OutcomeOf(i).details

----------------------------------------------------------------------------
(* C35 *)

\* execute has returned the passthrough result.
PassedThrough == handler.pc = "done" /\ handler.ret = PassthroughResult

\* C35: whenever execute returns the passthrough result "skipped", the
\* pipeline is as it was before the call: no verify_output.json has been
\* added to the pipeline's file list and no output has been uploaded, also
\* when the failure happens between the registration of the file and the
\* end of the upload.
C35_PassthroughLeavesPipeline ==
    PassedThrough => handler.files = <<>> /\ handler.uploaded = NoResult

----------------------------------------------------------------------------
(* C36 *)

\* C36: every VERIFIED outcome that verify_doctor returns from the
\* registry-number step or from the name + state step describes a provider
\* whose registry status is active (details.status is "Active"); a provider
\* recorded as inactive is never reported VERIFIED by these steps.
C36_VerifiedMeansActive ==
    \A t \in Tasks :
        LET tr == task[t] IN
        (Done(t) /\ tr.ret.status = VERIFIED /\ tr.steps # <<>>
            /\ tr.steps[Len(tr.steps)].strategy \in {"npi", "name"}) =>
                /\ tr.ret = tr.steps[Len(tr.steps)].result
                /\ tr.ret.details.status = Active

----------------------------------------------------------------------------
(* C37 *)

\* C37: verify_doctor returns the generic NOT_FOUND outcome, the one with
\* the message "No verifiable identifiers provided ...", only when no
\* strategy was attempted; whenever at least one lookup was attempted, none
\* raised and none yielded VERIFIED, the outcome returned is the one the
\* last attempted strategy produced (its status, details and message).
C37_LastStrategyReturned ==
    \A t \in Tasks :
        LET tr == task[t] IN
        Done(t) =>
            /\ tr.ret.error_message = NoIdentifiersMessage => tr.steps = <<>> /\ tr.reqs = <<>>
            /\ (tr.steps # <<>> /\ ~StrategyRaised(tr)) =>
                  /\ tr.ret.status = tr.steps[Len(tr.steps)].result.status
                  /\ tr.ret.details = tr.steps[Len(tr.steps)].result.details
                  /\ tr.ret.error_message = tr.steps[Len(tr.steps)].result.error_message

----------------------------------------------------------------------------
(* C38 *)

\* Cache d is cache c with the entry of call tr's number set to the details
\* the call returned.
WrittenBy(tr, c, d) ==
    /\ DOMAIN d = DOMAIN c \cup {tr.args.npi_number}
    /\ d[tr.args.npi_number] = tr.ret.details
    /\ \A n \in DOMAIN c : n # tr.args.npi_number => d[n] = c[n]

\* Call tr has just received an active record for its lookup by number and
\* returned VERIFIED from that step.
VerifiedByNumber(tr) ==
    /\ tr.pc = "done"
    /\ tr.resp.for = "npi"
    /\ ActiveRecord(tr.resp.response)
    /\ tr.ret.status = VERIFIED
    /\ tr.steps[Len(tr.steps)].strategy = "npi"

\* Call tr has ended in NOT_FOUND, INVALID or ERROR, or has verified through
\* the license step or the name + state step.
EndedOtherwise(tr) ==
    /\ tr.pc = "done"
    /\ \/ tr.ret.status \in {NOT_FOUND, INVALID, ERROR}
       \/ /\ tr.ret.status = VERIFIED
          /\ tr.steps[Len(tr.steps)].strategy \in {"license", "name"}

\* C38: over any sequence of verify_doctor calls, the cache changes only
\* when a lookup by registry number receives an active record, and then by
\* the entry of that number alone; every stored entry has status "Active"
\* and cached = FALSE, a cache hit returning a copy marked cached and leaving
\* the stored entry as it is; calls that end in NOT_FOUND, INVALID or ERROR,
\* or that verify through the license or the name + state step, leave the
\* cache unchanged.
C38_CacheInvariant ==
    [][/\ cache' # cache =>
             \E t \in Tasks :
                 /\ task[t].pc = "await_npi"
                 /\ VerifiedByNumber(task'[t])
                 /\ WrittenBy(task'[t], cache, cache')
       /\ \A n \in DOMAIN cache' :
             cache'[n].status = Active /\ cache'[n].cached = FALSE
       /\ \A t \in Tasks :
             /\ (task[t].pc # "done" /\ EndedOtherwise(task'[t])) =>
                   cache' = cache /\ cache' = task'[t].cache0
             /\ (task[t].pc # "done" /\ task'[t].pc = "done"
                    /\ ServedFromCache(task'[t])) =>
                   /\ cache' = cache
                   /\ cache[task'[t].args.npi_number].cached = FALSE
                   /\ task'[t].ret.details
                         = [cache[task'[t].args.npi_number] EXCEPT !.cached = TRUE]]_vars

\* A second number has been written to the cache by a lookup that received
\* an active record: the entry written first is still there, unchanged.
C38_Witness ==
    \E t \in Tasks :
        /\ VerifiedByNumber(task[t])
        /\ task[t].cache0 # EmptyCache
        /\ cache # task[t].cache0
        /\ WrittenBy(task[t], task[t].cache0, cache)

\* A call verified through the name + state step with an entry in the
\* cache, which is as it was.
C38_WitnessName ==
    \E t \in Tasks :
        /\ EndedOtherwise(task[t])
        /\ task[t].ret.status = VERIFIED
        /\ task[t].cache0 # EmptyCache
        /\ cache = task[t].cache0

\* A call whose number step found an inactive record and that ended in
\* NOT_FOUND, the cache holding an entry already.
C38_WitnessInactive ==
    \E t \in Tasks :
        /\ EndedOtherwise(task[t])
        /\ \E r \in ResultsOf(task[t], "npi") : r.status = INVALID
        /\ task[t].cache0 # EmptyCache
        /\ cache = task[t].cache0

----------------------------------------------------------------------------
(* C39 *)

\* The items of the document that match a configured pattern.
MatchingItems == {i \in 1..Len(handler.items) : Matching(i)}

\* C39: every comparison item whose lower-cased field name contains a
\* configured pattern ("physician", "doctor", "npi", "license") receives
\* exactly one outcome, so that total_fields_checked is the number of
\* pattern-matching items of the document.
C39_EveryMatchingItemCounted ==
    Succeeded =>
        /\ \A i \in MatchingItems :
              /\ handler.items[i].Field \in DOMAIN handler.results
              /\ "VerificationStatus" \in DOMAIN handler.annotated[i]
        /\ handler.metadata.total_fields_checked = Cardinality(MatchingItems)
        /\ handler.ret.total_fields_checked = Cardinality(MatchingItems)

----------------------------------------------------------------------------
(* C40 *)

\* The requests call tr has sent to the given lookup.
RequestsTo(tr, lookup) == {k \in 1..Len(tr.reqs) : tr.reqs[k].lookup = lookup}

\* Call tr has sent at most one request to each registry lookup, in the
\* order of the strategies, and has an outcome exactly when it has returned.
AtMostOnePerStrategy(tr) ==
    /\ \A lookup \in {"npi", "license", "name"} : Cardinality(RequestsTo(tr, lookup)) <= 1
    /\ Len(tr.reqs) <= 3
    /\ tr.pc \in {"await_npi", "await_license", "await_name"} =>
          /\ tr.reqs # <<>>
          /\ tr.reqs[Len(tr.reqs)].lookup = Strategy(tr.pc)
          /\ tr.ret = NoResult
    /\ tr.pc = "done" => tr.ret # NoResult /\ tr.ret.status \in VerificationStatus

\* C40: provided every issued registry request eventually responds, fails
\* or times out, every verify_doctor call eventually returns, with exactly
\* one outcome, after issuing at most one request per strategy (three at
\* most in all) and without sending any request again.
C40_EveryCallReturns ==
    /\ [](\A t \in Tasks : AtMostOnePerStrategy(task[t]))
    /\ \A t \in Tasks : (task[t].pc # "idle") ~> (task[t].pc = "done")

\* A call that returned after three requests, one to each lookup.
C40_Witness ==
    \E t \in Tasks :
        /\ Done(t)
        /\ Len(task[t].reqs) = 3
        /\ \A lookup \in {"npi", "license", "name"} :
              Cardinality(RequestsTo(task[t], lookup)) = 1

\* A call that returned the failure of its second request, sent once.
C40_WitnessFailed ==
    \E t \in Tasks :
        /\ Done(t)
        /\ Len(task[t].reqs) = 2
        /\ RequestRaised(task[t])
        /\ task[t].ret.status = ERROR

====
